---- MODULE Spec2Model ----
(***************************************************************************)
(* Model of rpi_system_info: the board revision-code decoder               *)
(* (PiInfo.decode_revision_code), the construction of the PiInfo singleton *)
(* (Singleton.__call__, PiInfo.__post_init__) and the shell reader         *)
(* (__get_shell_cmd_output) of PiInfo and PiSystemInfo, and the fact        *)
(* getters that parse the text the reader returns.                         *)
(*                                                                         *)
(* A Python str is a sequence of one-character strings.  A Python int is   *)
(* unbounded, so it is kept as a sign and a magnitude of base-16 digits    *)
(* (most significant first, no leading zero); bit operations are computed  *)
(* on that representation with Python's two's-complement meaning for       *)
(* negative numbers.                                                       *)
(***************************************************************************)
EXTENDS Integers, Sequences, FiniteSets, TLC

VARIABLES
    revision_code,   \* the text under decode: stdout of the revision command
    decoded,         \* what decode_revision_code(revision_code) returned or raised
    built,           \* what PiInfo.__post_init__ made of that stdout: the fields, or what it raised
    fields,          \* the field values the text was built from (round trip)
    instances,       \* Singleton._instances: class |-> object id (0: no entry)
    lock,            \* Singleton._lock: the thread holding it (0: free)
    heap,            \* the objects constructed so far; an object's id is its index
    pc,              \* each thread's position in Singleton.__call__
    th,              \* each thread's current call: class, outcome of the command in the body
    ret,             \* what each thread's last Singleton call returned or raised
    log,             \* the entries written to the logger
    lastread,        \* the last run of a shell reader: command, outcome, result
    fact,            \* the last fact request: getter, arguments, command outcomes, result
    snapshot         \* the list the previous get_processes_info call handed out

dvars == <<revision_code, decoded, built, fields>>
mvars == <<instances, lock, heap, pc, th, ret, log, lastread>>
fvars == <<fact, snapshot>>
vars == <<dvars, mvars, fvars>>

(***************************************************************************)
(* Python str and int                                                      *)
(***************************************************************************)
LowerHex == <<"0","1","2","3","4","5","6","7","8","9","a","b","c","d","e","f">>
UpperHex == <<"0","1","2","3","4","5","6","7","8","9","A","B","C","D","E","F">>
Whitespace == {" ", "\t", "\n"}

\* Op(v), with v evaluated once.
Apply(Op(_), v) == CHOOSE r \in {Op(x) : x \in {v}} : TRUE

\* The value of a base-16 digit of either case, -1 for any other character.
HexDigitValue(c) ==
    CASE c = "0" -> 0 [] c = "1" -> 1 [] c = "2" -> 2 [] c = "3" -> 3
      [] c = "4" -> 4 [] c = "5" -> 5 [] c = "6" -> 6 [] c = "7" -> 7
      [] c = "8" -> 8 [] c = "9" -> 9
      [] c = "a" \/ c = "A" -> 10 [] c = "b" \/ c = "B" -> 11
      [] c = "c" \/ c = "C" -> 12 [] c = "d" \/ c = "D" -> 13
      [] c = "e" \/ c = "E" -> 14 [] c = "f" \/ c = "F" -> 15
      [] OTHER -> -1

IsHexDigit(c) == HexDigitValue(c) >= 0

RECURSIVE LStrip(_)
LStrip(s) == IF s # <<>> /\ Head(s) \in Whitespace THEN LStrip(Tail(s)) ELSE s

RECURSIVE RStrip(_)
RStrip(s) ==
    IF s # <<>> /\ s[Len(s)] \in Whitespace THEN RStrip(SubSeq(s, 1, Len(s) - 1)) ELSE s

\* str.strip()
Strip(s) == RStrip(LStrip(s))

RECURSIVE DropLeadingZeros(_)
DropLeadingZeros(m) ==
    IF m # <<>> /\ Head(m) = 0 THEN DropLeadingZeros(Tail(m)) ELSE m

PyInt(neg, mag) ==
    LET m == DropLeadingZeros(mag) IN [neg |-> neg /\ m # <<>>, mag |-> m]

\* An exception: its class and the call that raised it.
Exc(name, at) == [raised |-> name, at |-> at]

ValueErrorInt == Exc("ValueError", "int")

\* int(s, 16): surrounding whitespace, an optional sign, an optional 0x prefix,
\* then one or more base-16 digits of either case; anything else is a ValueError.
Digits16(neg, d) ==
    IF d = <<>> \/ \E i \in 1..Len(d) : ~IsHexDigit(d[i])
    THEN ValueErrorInt
    ELSE PyInt(neg, [i \in 1..Len(d) |-> HexDigitValue(d[i])])

Stripped16(t) ==
    LET signed == t # <<>> /\ Head(t) \in {"+", "-"}
        neg == t # <<>> /\ Head(t) = "-"
        u == IF signed THEN Tail(t) ELSE t
        prefixed == Len(u) >= 2 /\ u[1] = "0" /\ u[2] \in {"x", "X"}
    IN  IF prefixed THEN Digits16(neg, SubSeq(u, 3, Len(u))) ELSE Digits16(neg, u)

Int16(s) == Apply(Stripped16, Strip(s))

\* The base-16 digit of weight 16^k of a magnitude.
Nibble(mag, k) == IF k < Len(mag) THEN mag[Len(mag) - k] ELSE 0

\* mag - 1, for mag > 0.
RECURSIVE MagDec(_)
MagDec(mag) ==
    LET n == Len(mag) IN
    IF mag[n] > 0 THEN [mag EXCEPT ![n] = @ - 1]
    ELSE Append(MagDec(SubSeq(mag, 1, n - 1)), 15)

Pow2(k) == CASE k = 0 -> 1 [] k = 1 -> 2 [] k = 2 -> 4 [] k = 3 -> 8

\* Bit i of a Python int (two's complement, infinitely sign-extended).
Bit(code, i) ==
    IF code.neg
    THEN 1 - ((Nibble(MagDec(code.mag), i \div 4) \div Pow2(i % 4)) % 2)
    ELSE (Nibble(code.mag, i \div 4) \div Pow2(i % 4)) % 2

RECURSIVE AndShift(_, _, _)
\* (code & mask) >> shift, for the mask whose set bits are lo..hi and shift = lo.
AndShift(code, lo, hi) ==
    IF hi < lo THEN 0 ELSE 2 * AndShift(code, lo + 1, hi) + Bit(code, lo)

\* The value of a Python int as a number, when it is in 0 .. 16^4 - 1
\* (the range that holds every key of the legacy table), else -1.
SmallValue(code) ==
    IF code.neg \/ Len(code.mag) > 4 THEN -1
    ELSE Nibble(code.mag, 3) * 4096 + Nibble(code.mag, 2) * 256
         + Nibble(code.mag, 1) * 16 + Nibble(code.mag, 0)

\* str(n) for n in 0..15, as f"{code & 0xF}" formats it.
DecStr(n) ==
    <<"0","1","2","3","4","5","6","7","8","9","10","11","12","13","14","15">>[n + 1]

(***************************************************************************)
(* ModelType and PiInfo.decode_revision_code                               *)
(***************************************************************************)
\* class ModelType(Enum): member name |-> value.
ModelType ==
    [UNKNOWN |-> -100,
     RPI_A |-> 0, RPI_B |-> 1, RPI_A_PLUS |-> 2, RPI_B_PLUS |-> 3, RPI_2B |-> 4,
     RPI_ALPHA |-> 5, RPI_CM1 |-> 6, RPI_3B |-> 8, RPI_ZERO |-> 9, RPI_CM3 |-> 10,
     RPI_ZERO_W |-> 12, RPI_3B_PLUS |-> 13, RPI_3A_PLUS |-> 14, RPI_CM3_PLUS |-> 16,
     RPI_4B |-> 17, RPI_Zero2W |-> 18, RPI_400 |-> 19, RPI_CM4 |-> 20,
     RPI_CM4S |-> 21, RPI_5 |-> 23, RPI_CM5 |-> 24, RPI_CM5_LITE |-> 25]

ModelTypeNames == DOMAIN ModelType

ValueErrorModelType == Exc("ValueError", "ModelType")

\* ModelType(value): the member with that value; Enum raises ValueError when
\* no member has it (the class defines no _missing_ hook).
IsModelTypeValue(value) == \E m \in ModelTypeNames : ModelType[m] = value

ModelTypeOf(value) == CHOOSE m \in ModelTypeNames : ModelType[m] = value

old_boards_revisions_decoder ==
    (0  :> <<"UNKNOWN", "0.0", 0, "UNKNOWN", "UNKNOWN">>) @@
    (2  :> <<"RPI_B", "1.0", 256, "BCM2835", "EGOMAN">>) @@
    (3  :> <<"RPI_B", "1.0", 256, "BCM2835", "EGOMAN">>) @@
    (4  :> <<"RPI_B", "2.0", 256, "BCM2835", "SONY_UK">>) @@
    (5  :> <<"RPI_B", "2.0", 256, "BCM2835", "QISDA">>) @@
    (6  :> <<"RPI_B", "2.0", 256, "BCM2835", "EGOMAN">>) @@
    (7  :> <<"RPI_A", "2.0", 256, "BCM2835", "EGOMAN">>) @@
    (8  :> <<"RPI_A", "2.0", 256, "BCM2835", "SONY_UK">>) @@
    (9  :> <<"RPI_A", "2.0", 256, "BCM2835", "QISDA">>) @@
    (13 :> <<"RPI_B", "2.0", 512, "BCM2835", "EGOMAN">>) @@
    (14 :> <<"RPI_B", "2.0", 512, "BCM2835", "SONY_UK">>) @@
    (15 :> <<"RPI_B", "2.0", 512, "BCM2835", "EGOMAN">>) @@
    (16 :> <<"RPI_B_PLUS", "1.2", 512, "BCM2835", "SONY_UK">>) @@
    (17 :> <<"RPI_CM1", "1.0", 512, "BCM2835", "SONY_UK">>) @@
    (18 :> <<"RPI_A_PLUS", "1.1", 256, "BCM2835", "SONY_UK">>) @@
    (19 :> <<"RPI_B_PLUS", "1.2", 512, "BCM2835", "EMBEST">>) @@
    (20 :> <<"RPI_CM1", "1.0", 512, "BCM2835", "EMBEST">>) @@
    (21 :> <<"RPI_A_PLUS", "1.1", 512, "BCM2835", "EMBEST">>)

\* The list with an eighth size.
memory_sizes_WithEighth == <<256, 512, 1024, 2048, 4096, 8192, 16384, 32768>>

memory_sizes == <<256, 512, 1024, 2048, 4096, 8192, 16384>>
cpu_models == <<"BCM2835", "BCM2836", "BCM2837", "BCM2711", "BCM2712">>
manufacturers == <<"Sony UK", "Egoman", "Embest", "Sony Japan", "Embest", "Stadium">>

IndexError(what) == Exc("IndexError", what)
KeyError == Exc("KeyError", "old_boards_revisions_decoder")

Raised(r) == "raised" \in DOMAIN r

\* The bit fields of a new-style code: (code & mask) >> shift.
ModelTypeField(code) == AndShift(code, 4, 11)          \* (code & 0xFF0) >> 4
RevisionField(code) == AndShift(code, 0, 3)            \* code & 0xF
MemoryField(code) == AndShift(code, 20, 22)            \* (code & 0x700000) >> 20
CpuField(code) == AndShift(code, 12, 15)               \* (code & 0xF000) >> 12
ManufacturerField(code) == AndShift(code, 16, 19)      \* (code & 0xF0000) >> 16
OvervoltageFlag(code) == AndShift(code, 31, 31) # 0    \* bool((code & 0x80000000) >> 31)
OtpProgrammingFlag_Bit29(code) == AndShift(code, 29, 29) # 0
OtpProgrammingFlag(code) == AndShift(code, 30, 30) # 0 \* bool((code & 0x40000000) >> 30)
OtpReadingFlag(code) == AndShift(code, 29, 29) # 0     \* bool((code & 0x20000000) >> 29)

\* The new-style branch: the dict literal is evaluated entry by entry, so the
\* first failing entry decides the exception.
NewStyleDecode(code) ==
    IF ~IsModelTypeValue(ModelTypeField(code)) THEN ValueErrorModelType
    ELSE IF MemoryField(code) >= Len(memory_sizes) THEN IndexError("memory_sizes")
    ELSE IF CpuField(code) >= Len(cpu_models) THEN IndexError("cpu_models")
    ELSE IF ManufacturerField(code) >= Len(manufacturers) THEN IndexError("manufacturers")
    ELSE [model_type |-> ModelTypeOf(ModelTypeField(code)),
          revision |-> "1." \o DecStr(RevisionField(code)),
          memory_size |-> memory_sizes[MemoryField(code) + 1],
          cpu_model |-> cpu_models[CpuField(code) + 1],
          manufacturer |-> manufacturers[ManufacturerField(code) + 1],
          overvoltage_allowed |-> OvervoltageFlag(code),
          otp_programming_allowed |-> OtpProgrammingFlag(code),
          otp_reading_allowed |-> OtpReadingFlag(code)]

\* The old-style branch: an exact-key lookup in the historical table.
LegacyRow_Swapped(row) ==
    [model_type |-> row[1], revision |-> row[2], memory_size |-> row[3],
     cpu_model |-> row[5], manufacturer |-> row[4]]

LegacyRow(row) ==
    [model_type |-> row[1], revision |-> row[2], memory_size |-> row[3],
     cpu_model |-> row[4], manufacturer |-> row[5]]

LegacyDecode_Default(code) ==
    IF SmallValue(code) \in DOMAIN old_boards_revisions_decoder
    THEN LegacyRow(old_boards_revisions_decoder[SmallValue(code)])
    ELSE LegacyRow(old_boards_revisions_decoder[0])

LegacyDecode(code) ==
    IF SmallValue(code) \in DOMAIN old_boards_revisions_decoder
    THEN LegacyRow(old_boards_revisions_decoder[SmallValue(code)])
    ELSE KeyError

SchemeFlag_Bit22(code) == AndShift(code, 22, 22)

\* flag = (code & 0x800000) >> 23
SchemeFlag(code) == AndShift(code, 23, 23)

DecodeCode(code) ==
    IF Raised(code) THEN code
    ELSE IF SchemeFlag(code) # 0 THEN NewStyleDecode(code)
    ELSE LegacyDecode(code)

\* code = int(revision_code, 16), then the branch on the flag.
decode_revision_code(text) == Apply(DecodeCode, Int16(text))

(***************************************************************************)
(* The shell reader: __get_shell_cmd_output of PiInfo and of PiSystemInfo  *)
(***************************************************************************)
\* What subprocess.run(command, shell=True, capture_output=True, text=True,
\* check=True) can do: return (exit code 0), raise CalledProcessError
\* (non-zero exit), raise FileNotFoundError, or raise something else
\* (another OSError from spawning the shell, UnicodeDecodeError when the
\* output is not valid text).
Completed(stdout) == [kind |-> "completed", stdout |-> stdout]
CalledProcessError(returncode, stderr) ==
    [kind |-> "CalledProcessError", returncode |-> returncode, stderr |-> stderr]
FileNotFoundError == [kind |-> "FileNotFoundError"]
OtherError(name) == [kind |-> name]

UncaughtKinds == {"PermissionError", "UnicodeDecodeError"}

\* Python values a reader returns: a str, or None.
Str(s) == [str |-> s]
None == [none |-> TRUE]
IsNone(v) == "none" \in DOMAIN v

LogEntry(level, msg, arg) == [level |-> level, msg |-> msg, arg |-> arg]

Returns(value, logged) == [returned |-> value, logged |-> logged]
Raises(exc, logged) == [raised |-> exc, logged |-> logged]

\* The except clauses of the reader: each logs once, at error level, with the command.
ReaderErrorLog(command, run) ==
    IF run.kind = "CalledProcessError"
    THEN <<LogEntry("ERROR", "Shell command failed",
                    [command |-> command, code |-> run.returncode,
                     stderr |-> Strip(run.stderr)])>>
    ELSE <<LogEntry("ERROR", "Command not found", [command |-> command])>>

\* The try/except of the reader; `onFailure` is what falls out after a caught
\* exception ('' in PiInfo, the implicit None in PiSystemInfo).
ShellCmdOutput(command, run, onFailure) ==
    CASE run.kind = "completed" -> Returns(Str(Strip(run.stdout)), <<>>)
      [] run.kind \in {"CalledProcessError", "FileNotFoundError"} ->
            Returns(onFailure, ReaderErrorLog(command, run))
      [] OTHER -> Raises(Exc(run.kind, "subprocess.run"), <<>>)

\* PiInfo.__get_shell_cmd_output
PiInfo_get_shell_cmd_output(command, run) == ShellCmdOutput(command, run, Str(<<>>))

\* PiSystemInfo.__get_shell_cmd_output
PiSystemInfo_get_shell_cmd_output(command, run) == ShellCmdOutput(command, run, None)

(***************************************************************************)
(* PiInfo.__post_init__                                                    *)
(***************************************************************************)
RevisionCommand == "cat /proc/cpuinfo | grep 'Revision' | cut -d: -f2"

\* The dataclass defaults of the three flags stay unless the decoded dict has the key.
FlagOrDefault(d, key) == IF key \in DOMAIN d THEN d[key] ELSE FALSE

PiInfoFields(text, d) ==
    [revision_code |-> text,
     model_type |-> d.model_type,
     revision |-> d.revision,
     manufacturer |-> d.manufacturer,
     cpu_model |-> d.cpu_model,
     memory_size |-> d.memory_size,
     overvoltage_allowed |-> FlagOrDefault(d, "overvoltage_allowed"),
     otp_programming_allowed |-> FlagOrDefault(d, "otp_programming_allowed"),
     otp_reading_allowed |-> FlagOrDefault(d, "otp_reading_allowed")]

post_init_Defaulting(run) ==
    Returns(PiInfoFields(<<>>, [model_type |-> "UNKNOWN", revision |-> <<>>,
                                manufacturer |-> <<>>, cpu_model |-> <<>>,
                                memory_size |-> <<>>]), <<>>)

\* __post_init__ with `run` the outcome of the revision command: the fields it
\* sets, or the exception that leaves it, and the log entries it wrote.
post_init(run) ==
    LET fetching == <<LogEntry("DEBUG", "Fetching board revision code...", <<>>)>>
        r == PiInfo_get_shell_cmd_output(RevisionCommand, run)
    IN  IF "raised" \in DOMAIN r THEN Raises(r.raised, fetching)
        ELSE
          LET text == r.returned.str
              d == decode_revision_code(text)
              parsing == fetching \o r.logged \o
                         <<LogEntry("DEBUG", "Board revision code", text),
                           LogEntry("DEBUG", "Parsing board revision code string...", <<>>)>>
          IN  IF Raised(d) THEN Raises(d, parsing)
              ELSE Returns(PiInfoFields(text, d),
                           parsing \o <<LogEntry("INFO", "Board info fully initialized", <<>>)>>)

(***************************************************************************)
(* Singleton.__call__, the PiInfo and PiSystemInfo instances, their getters *)
(***************************************************************************)
NThreads == 2
MaxCalls == 2    \* Singleton calls per thread
MaxReads == 1    \* getter calls per thread

Threads == 1..NThreads
Classes == {"PiInfo", "PiSystemInfo"}

\* The attributes hasattr() can find on a class.  LoggerSingleton's
\* __allow_reinitialization is stored under its mangled name, and neither
\* PiInfo nor PiSystemInfo defines one.
ClassAttrs(cls) ==
    CASE cls = "PiInfo" -> {"_NET_PATH", "FrequencyUnit"}
      [] cls = "PiSystemInfo" -> {}
      [] cls = "LoggerSingleton" ->
            {"_LoggerSingleton__allow_reinitialization", "_LoggerSingleton__logger"}

AllowsReinitialization_Always(cls) == TRUE

\* The attribute as the class body stored it, under the mangled name.
AllowsReinitialization_WhenDeclared(cls) ==
    ("_" \o cls \o "__allow_reinitialization") \in ClassAttrs(cls)

\* hasattr(cls, '__allow_reinitialization') and cls.__allow_reinitialization
AllowsReinitialization(cls) == "__allow_reinitialization" \in ClassAttrs(cls)

LockAvailable_NoLock(t) == TRUE

\* `with cls._lock`: the RLock is free, or already held by this thread.
LockAvailable(t) == lock \in {0, t}

NoRun == [kind |-> "none"]
NoRead == [pending |-> TRUE]
NoReturn == [kind |-> "none"]
Unset == [unset |-> TRUE]

\* What the revision command can do on a board, on another machine, or when
\* the shell cannot be run.
RevisionRuns ==
    { Completed(<<" ", "a", "0", "3", "1", "1", "1", "\n">>),
      Completed(<<" ", "0", "0", "1", "0", "\n">>),
      Completed(<<>>),
      Completed(<<"n", "/", "a">>),
      Completed(<<"0", "0", "0", "1">>),
      CalledProcessError(1, <<"d", "e", "n", "i", "e", "d", "\n">>),
      FileNotFoundError } \cup { OtherError(k) : k \in UncaughtKinds }

GetterRuns ==
    { Completed(<<"p", "i", "\n">>),
      Completed(<<>>),
      CalledProcessError(127, <<"n", "o", "t", " ", "f", "o", "u", "n", "d">>),
      FileNotFoundError } \cup { OtherError(k) : k \in UncaughtKinds }

\* The getters modelled: an uncached method and a cached property of PiInfo,
\* a cached property of PiSystemInfo.  Each returns the reader's value as is.
Getters ==
    { [cls |-> "PiInfo", name |-> "get_uptime_pretty", command |-> "uptime -p", cached |-> FALSE],
      [cls |-> "PiInfo", name |-> "cpu_architecture",
       command |-> "lscpu | grep 'Architecture' | cut -d: -f2", cached |-> TRUE],
      [cls |-> "PiSystemInfo", name |-> "hostname", command |-> "hostname", cached |-> TRUE] }

Reader(cls, command, run) ==
    IF cls = "PiInfo" THEN PiInfo_get_shell_cmd_output(command, run)
    ELSE PiSystemInfo_get_shell_cmd_output(command, run)

Read(cls, command, run) ==
    [cls |-> cls, command |-> command, run |-> run, out |-> Reader(cls, command, run)]

\* cls.__init__: for PiInfo the dataclass __init__ and __post_init__, for
\* PiSystemInfo the assignment of the logger.
Construct(cls, run) ==
    IF cls = "PiInfo" THEN post_init(run)
    ELSE Returns([logger |-> "logger"], <<>>)

CachedProperties(cls) == {g.name : g \in {x \in Getters : x.cls = cls /\ x.cached}}

NewObject(cls, identity) ==
    [cls |-> cls, identity |-> identity, cache |-> [n \in CachedProperties(cls) |-> Unset]]

NoGet == [getter |-> "none"]
NoCall ==
    [cls |-> "none", early |-> FALSE, run |-> NoRun, instance |-> 0, calls |-> 0,
     reads |-> 0, got |-> NoGet]

MainInit ==
    /\ instances = [c \in Classes |-> 0]
    /\ lock = 0
    /\ heap = <<>>
    /\ pc = [t \in Threads |-> "idle"]
    /\ th = [t \in Threads |-> NoCall]
    /\ ret = [t \in Threads |-> NoReturn]
    /\ log = <<>>
    /\ lastread = NoRead

BodyHasRun(cls) ==
    \/ instances[cls] # 0
    \/ \E i \in 1..Len(heap) : heap[i].cls = cls
    \/ \E t \in Threads : th[t].cls = cls /\ th[t].run # NoRun

\* A thread calls cls(...): it enters Singleton.__call__ and waits for the lock.
Call(t, cls) ==
    /\ pc[t] = "idle"
    /\ th[t].calls < MaxCalls
    /\ th' = [th EXCEPT ![t] = [cls |-> cls, early |-> ~BodyHasRun(cls), run |-> NoRun,
                                instance |-> 0, calls |-> @.calls + 1, reads |-> @.reads,
                                got |-> @.got]]
    /\ pc' = [pc EXCEPT ![t] = "acquire"]
    /\ UNCHANGED <<instances, lock, heap, ret, log, lastread>>

\* with cls._lock:
Acquire(t) ==
    /\ pc[t] = "acquire"
    /\ LockAvailable(t)
    /\ lock' = t
    /\ pc' = [pc EXCEPT ![t] = "locked"]
    /\ UNCHANGED <<instances, heap, th, ret, log, lastread>>

\* An exception leaves __call__: the with block releases the lock on the way out.
Propagate(t, exc) ==
    /\ lock' = 0
    /\ pc' = [pc EXCEPT ![t] = "idle"]
    /\ ret' = [ret EXCEPT ![t] = [kind |-> "raised", cls |-> th[t].cls, exc |-> exc]]

\* if cls not in cls._instances: instance = super().__call__(*args, **kwargs)
Build(t) ==
    /\ pc[t] = "locked"
    /\ instances[th[t].cls] = 0
    /\ \E run \in RevisionRuns :
        LET cls == th[t].cls
            made == Construct(cls, run)
        IN  /\ th[t].cls = "PiInfo" \/ run = Completed(<<>>)
            /\ th' = [th EXCEPT ![t].run = run,
                                ![t].instance = IF "raised" \in DOMAIN made THEN 0
                                                ELSE Len(heap) + 1]
            /\ log' = log \o made.logged
            /\ lastread' = IF cls = "PiInfo" THEN Read(cls, RevisionCommand, run) ELSE lastread
            /\ IF "raised" \in DOMAIN made
               THEN /\ Propagate(t, made.raised)
                    /\ UNCHANGED <<instances, heap>>
               ELSE /\ heap' = Append(heap, NewObject(cls, made.returned))
                    /\ pc' = [pc EXCEPT ![t] = "store"]
                    /\ UNCHANGED <<instances, lock, ret>>

\* cls._instances[cls] = instance
Store(t) ==
    /\ pc[t] = "store"
    /\ instances' = [instances EXCEPT ![th[t].cls] = th[t].instance]
    /\ pc' = [pc EXCEPT ![t] = "release"]
    /\ UNCHANGED <<lock, heap, th, ret, log, lastread>>

\* else: instance = cls._instances[cls], and instance.__init__(...) again when
\* the class allows reinitialization.
Lookup(t) ==
    /\ pc[t] = "locked"
    /\ instances[th[t].cls] # 0
    /\ LET cls == th[t].cls
           id == instances[cls]
       IN  IF AllowsReinitialization(cls)
           THEN \E run \in RevisionRuns :
                  LET made == Construct(cls, run) IN
                  /\ th' = [th EXCEPT ![t].instance = id]
                  /\ log' = log \o made.logged
                  /\ lastread' = IF cls = "PiInfo" THEN Read(cls, RevisionCommand, run) ELSE lastread
                  /\ IF "raised" \in DOMAIN made
                     THEN /\ Propagate(t, made.raised)
                          /\ UNCHANGED <<instances, heap>>
                     ELSE /\ heap' = [heap EXCEPT ![id].identity = made.returned]
                          /\ pc' = [pc EXCEPT ![t] = "release"]
                          /\ UNCHANGED <<instances, lock, ret>>
           ELSE /\ th' = [th EXCEPT ![t].instance = id]
                /\ pc' = [pc EXCEPT ![t] = "release"]
                /\ UNCHANGED <<instances, lock, heap, ret, log, lastread>>

\* The with block ends; return instance.
Release(t) ==
    /\ pc[t] = "release"
    /\ lock' = 0
    /\ pc' = [pc EXCEPT ![t] = "idle"]
    /\ ret' = [ret EXCEPT ![t] = [kind |-> "instance", cls |-> th[t].cls, id |-> th[t].instance]]
    /\ UNCHANGED <<instances, heap, th, log, lastread>>

\* A thread calls a getter of the instance it was returned.  A cached property
\* that was read before returns the value kept in the instance's __dict__ and
\* runs nothing; any other read runs the getter's command through the reader.
Get(t, g) ==
    /\ pc[t] = "idle"
    /\ ret[t].kind = "instance"
    /\ ret[t].cls = g.cls
    /\ th[t].reads < MaxReads
    /\ LET id == ret[t].id IN
       IF g.cached /\ heap[id].cache[g.name] # Unset
       THEN /\ th' = [th EXCEPT ![t].reads = @ + 1,
                                ![t].got = [getter |-> g.name, ran |-> FALSE,
                                            out |-> Returns(heap[id].cache[g.name], <<>>)]]
            /\ UNCHANGED <<heap, log, lastread>>
       ELSE \E run \in GetterRuns :
              LET r == Read(g.cls, g.command, run) IN
              /\ th' = [th EXCEPT ![t].reads = @ + 1,
                                  ![t].got = [getter |-> g.name, ran |-> TRUE, out |-> r.out]]
              /\ lastread' = r
              /\ log' = log \o r.out.logged
              /\ heap' = IF g.cached /\ "returned" \in DOMAIN r.out
                         THEN [heap EXCEPT ![id].cache[g.name] = r.out.returned]
                         ELSE heap
    /\ UNCHANGED <<instances, lock, pc, ret>>

\* The decoder's own variables, before any text was decoded.
NoResult == [pending |-> TRUE]

DecodeIdle ==
    /\ revision_code = <<>>
    /\ decoded = NoResult
    /\ built = NoResult
    /\ fields = NoResult

\* No fact was requested yet.
NoFact == [getter |-> "none"]

FactIdle ==
    /\ fact = NoFact
    /\ snapshot = <<>>

Init == DecodeIdle /\ MainInit /\ FactIdle

Next ==
    \/ \E t \in Threads, cls \in Classes : Call(t, cls) /\ UNCHANGED <<dvars, fvars>>
    \/ \E t \in Threads : Acquire(t) /\ UNCHANGED <<dvars, fvars>>
    \/ \E t \in Threads : Build(t) /\ UNCHANGED <<dvars, fvars>>
    \/ \E t \in Threads : Store(t) /\ UNCHANGED <<dvars, fvars>>
    \/ \E t \in Threads : Lookup(t) /\ UNCHANGED <<dvars, fvars>>
    \/ \E t \in Threads : Release(t) /\ UNCHANGED <<dvars, fvars>>
    \/ \E t \in Threads, g \in Getters : Get(t, g) /\ UNCHANGED <<dvars, fvars>>

Spec == Init /\ [][Next]_vars

(***************************************************************************)
(* SpecDecode: the decoder and __post_init__ over a set of revision texts  *)
(***************************************************************************)
\* A direct call of the static method on a text.
DecodeRevisionCode(text) ==
    /\ revision_code' = text
    /\ decoded' = decode_revision_code(text)
    /\ UNCHANGED built

\* PiInfo.__post_init__ when the revision command printed `stdout`.
PostInit(stdout) ==
    /\ revision_code' = stdout
    /\ built' = post_init(Completed(stdout))
    /\ UNCHANGED decoded

\* Legacy-range codes 0 .. LegacyProbeMax are probed one by one.
LegacyProbeMax == 40

HexText(digits) == [i \in 1..Len(digits) |-> LowerHex[digits[i] + 1]]
UpperText(digits) == [i \in 1..Len(digits) |-> UpperHex[digits[i] + 1]]

\* "%04x" of n < 16^4, the way /proc/cpuinfo prints a legacy revision.
Digits4(n) == <<n \div 4096, (n \div 256) % 16, (n \div 16) % 16, n % 16>>

\* The ways a legacy code is written: as /proc/cpuinfo prints it, in upper
\* case, as `cut` leaves it (a leading blank, a newline), with a 0x prefix.
LegacyForms(n) ==
    {HexText(Digits4(n)), UpperText(Digits4(n)),
     <<" ">> \o HexText(Digits4(n)) \o <<"\n">>,
     <<"0", "x">> \o HexText(Digits4(n))}

\* Texts that are no code, signed codes, and codes wider than 32 bits.
OddTexts ==
    { <<>>, <<" ">>, <<"g">>, <<"1", "2", "g", "4">>, <<"0", "x">>, <<"-">>,
      <<"a", "0", " ", "1">>, <<"-", "1">>, <<"-", "8", "0", "0", "0", "0", "1">>,
      <<"-", "8", "0", "0", "0", "0", "0">>, <<"+", "1", "0">>,
      <<"1", "0", "0", "0", "0", "0", "0", "0", "d">>,
      <<"0", "0", "0", "0", "0", "0", "0", "0", "0", "d">> }

\* Each behaviour makes one call.
Pending == decoded = NoResult /\ built = NoResult

Try(text) ==
    /\ DecodeRevisionCode(text) \/ PostInit(text)
    /\ UNCHANGED <<fields, mvars, fvars>>

TryLegacy ==
    /\ Pending
    /\ \E n \in 0..LegacyProbeMax : \E text \in LegacyForms(n) : Try(text)

\* Eight-digit codes: every value of bits 20..23, a sample of every other field
\* (in-table and out-of-table indices, listed and unlisted model types).
TryWide ==
    /\ Pending
    /\ \E d7 \in {0, 2, 4, 8, 15}, d6 \in {0, 1}, d5 \in 0..15, d4 \in {0, 5, 6},
          d3 \in {0, 4, 5}, mt \in {0, 1, 7, 25, 26, 156}, d0 \in {0, 5, 13} :
            Try(HexText(<<d7, d6, d5, d4, d3, mt \div 16, mt % 16, d0>>))

\* Six-digit new-style codes over every value of the model-type field.
TryModelSweep ==
    /\ Pending
    /\ \E d5 \in {8, 14, 15}, d4 \in {0, 5, 6}, d3 \in {0, 4, 5}, mt \in 0..255 :
            Try(HexText(<<d5, d4, d3, mt \div 16, mt % 16, 1>>))

TryOdd == Pending /\ \E text \in OddTexts : Try(text)

\* New-style codes of a listed model type over every value of the memory,
\* manufacturer and processor fields, with and without the top flag digit.
TryIndexSweep ==
    /\ Pending
    /\ \E d7 \in {0, 10}, d5 \in 8..15, d4 \in 0..15, d3 \in 0..15, mt \in {0, 17, 25} :
            \/ Try(HexText(<<d7, 0, d5, d4, d3, mt \div 16, mt % 16, 2>>))
            \/ d7 = 0 /\ Try(HexText(<<d5, d4, d3, mt \div 16, mt % 16, 2>>))

DecodeInit == DecodeIdle /\ MainInit /\ FactIdle

DecodeNext == TryLegacy \/ TryWide \/ TryModelSweep \/ TryOdd \/ TryIndexSweep

SpecDecode == DecodeInit /\ [][DecodeNext]_vars

(***************************************************************************)
(* SpecRoundTrip: codes built from chosen field values, then decoded       *)
(***************************************************************************)
\* The members whose value is a value of the 8-bit model-type field (all but
\* the UNKNOWN sentinel, whose value -100 no revision code carries).
FieldModelTypes == {m \in ModelTypeNames : ModelType[m] \in 0..255}

\* "%x" of the 32-bit code with bit 23 set and the fields in their places.
BuildCode(f) ==
    LET flags == (IF f.overvoltage_allowed THEN 8 ELSE 0)
                 + (IF f.otp_programming_allowed THEN 4 ELSE 0)
                 + (IF f.otp_reading_allowed THEN 2 ELSE 0)
        digits == <<flags, 0, 8 + f.memory, f.manufacturer, f.cpu,
                    ModelType[f.model_type] \div 16, ModelType[f.model_type] % 16,
                    f.revision>>
    IN  HexText(DropLeadingZeros(digits))

\* A behaviour starts with the field values chosen and the code built from them.
RoundTripInit ==
    /\ \E m \in FieldModelTypes, rev \in 0..15,
          mem \in 0..(Len(memory_sizes) - 1), cpu \in 0..(Len(cpu_models) - 1),
          man \in 0..(Len(manufacturers) - 1),
          ov \in BOOLEAN, wr \in BOOLEAN, rd \in BOOLEAN :
            fields = [model_type |-> m, revision |-> rev, memory |-> mem, cpu |-> cpu,
                      manufacturer |-> man, overvoltage_allowed |-> ov,
                      otp_programming_allowed |-> wr, otp_reading_allowed |-> rd]
    /\ revision_code = BuildCode(fields)
    /\ decoded = NoResult
    /\ built = NoResult
    /\ MainInit
    /\ FactIdle

RoundTrip ==
    /\ Pending
    /\ DecodeRevisionCode(revision_code)
    /\ UNCHANGED <<fields, mvars, fvars>>

SpecRoundTrip == RoundTripInit /\ [][RoundTrip]_vars

(***************************************************************************)
(* Claims about the decoder                                                *)
(***************************************************************************)
LegacyKeys == {0} \cup 2..9 \cup 13..21

\* The historical table, column by column.
TabulatedModel(n) ==
    CASE n = 0 -> "UNKNOWN"
      [] n \in {2, 3, 4, 5, 6, 13, 14, 15} -> "RPI_B"
      [] n \in {7, 8, 9} -> "RPI_A"
      [] n \in {16, 19} -> "RPI_B_PLUS"
      [] n \in {17, 20} -> "RPI_CM1"
      [] n \in {18, 21} -> "RPI_A_PLUS"

TabulatedRevision(n) ==
    CASE n = 0 -> "0.0"
      [] n \in {2, 3, 17, 20} -> "1.0"
      [] n \in 4..9 \cup 13..15 -> "2.0"
      [] n \in {16, 19} -> "1.2"
      [] n \in {18, 21} -> "1.1"

TabulatedMemory(n) ==
    CASE n = 0 -> 0
      [] n \in 2..9 \cup {18} -> 256
      [] n \in 13..17 \cup 19..21 -> 512

TabulatedCpu(n) == IF n = 0 THEN "UNKNOWN" ELSE "BCM2835"

TabulatedManufacturer(n) ==
    CASE n = 0 -> "UNKNOWN"
      [] n \in {2, 3, 6, 7, 13, 15} -> "EGOMAN"
      [] n \in {4, 8, 14, 16, 17, 18} -> "SONY_UK"
      [] n \in {5, 9} -> "QISDA"
      [] n \in {19, 20, 21} -> "EMBEST"

\* C1: for each of the 18 legacy revision codes (0x0000, 0x0002-0x0009,
\* 0x000D-0x0015), however the code is written, decode_revision_code returns
\* exactly the tabulated (model_type, revision, memory_size, cpu_model,
\* manufacturer) for that code, and nothing else.
C1_LegacyCodesDecodeToTable ==
    \A n \in LegacyKeys :
        (decoded # NoResult /\ revision_code \in LegacyForms(n)) =>
            decoded = [model_type |-> TabulatedModel(n),
                       revision |-> TabulatedRevision(n),
                       memory_size |-> TabulatedMemory(n),
                       cpu_model |-> TabulatedCpu(n),
                       manufacturer |-> TabulatedManufacturer(n)]

C1_Witness ==
    /\ revision_code = <<"0", "0", "1", "3">>
    /\ decoded # NoResult
    /\ ~Raised(decoded)
    /\ decoded.manufacturer = "EMBEST"

\* C2: a code built from a model type of the enumeration, a revision nibble
\* 0..15, a memory index 0..6, a cpu index 0..4, a manufacturer index 0..5 and
\* any three flag bits, with bit 23 set, decodes to exactly that model type,
\* revision "1.<nibble>", the table entries at those indices and those flags.
C2_RevisionText(n) ==
    <<"1.0", "1.1", "1.2", "1.3", "1.4", "1.5", "1.6", "1.7", "1.8", "1.9",
      "1.10", "1.11", "1.12", "1.13", "1.14", "1.15">>[n + 1]

C2_NewStyleRoundTrip ==
    (decoded # NoResult) =>
        decoded = [model_type |-> fields.model_type,
                   revision |-> C2_RevisionText(fields.revision),
                   memory_size |-> memory_sizes[fields.memory + 1],
                   cpu_model |-> cpu_models[fields.cpu + 1],
                   manufacturer |-> manufacturers[fields.manufacturer + 1],
                   overvoltage_allowed |-> fields.overvoltage_allowed,
                   otp_programming_allowed |-> fields.otp_programming_allowed,
                   otp_reading_allowed |-> fields.otp_reading_allowed]

C2_Witness ==
    /\ decoded # NoResult
    /\ ~Raised(decoded)
    /\ fields.model_type = "RPI_CM5_LITE" /\ fields.revision = 15
    /\ fields.memory = 6 /\ fields.cpu = 4 /\ fields.manufacturer = 5
    /\ fields.otp_programming_allowed /\ ~fields.otp_reading_allowed
    /\ decoded.memory_size = 16384

\* The unsigned base-16 digits of a text with no sign, prefix or blank.
IsPlainHex(text) == text # <<>> /\ \A i \in 1..Len(text) : IsHexDigit(text[i])

\* The digit of weight 16^k of a plain text.
TextDigit(text, k) == IF k < Len(text) THEN HexDigitValue(text[Len(text) - k]) ELSE 0

TextBit23(text) == TextDigit(text, 5) >= 8
TextModelType(text) == 16 * TextDigit(text, 2) + TextDigit(text, 1)
ListedModelTypes == 0..6 \cup {8, 9, 10} \cup {12, 13, 14} \cup 16..21 \cup 23..25

\* C3: a new-style code (bit 23 set) whose model-type field is not listed in
\* ModelType decodes to a record whose model_type is UNKNOWN, and does not fail.
C3_UnlistedModelTypeIsUnknown ==
    (/\ decoded # NoResult
     /\ IsPlainHex(revision_code)
     /\ TextBit23(revision_code)
     /\ TextModelType(revision_code) \notin ListedModelTypes)
        => (~Raised(decoded) /\ decoded.model_type = "UNKNOWN")

\* The scheme a result comes from: the bit-field decode returns the eight-key
\* dict or fails in ModelType(...) or in a list index; the table lookup returns
\* the five-key dict or fails with KeyError.
FromNewStyle(r) ==
    IF Raised(r)
    THEN r.at \in {"ModelType", "memory_sizes", "cpu_models", "manufacturers"}
    ELSE DOMAIN r = {"model_type", "revision", "memory_size", "cpu_model", "manufacturer",
                     "overvoltage_allowed", "otp_programming_allowed", "otp_reading_allowed"}

FromLegacy(r) ==
    IF Raised(r)
    THEN r = KeyError
    ELSE DOMAIN r = {"model_type", "revision", "memory_size", "cpu_model", "manufacturer"}

IsCode(text) == ~Raised(Int16(text))
CodeBit23(text) == Bit(Int16(text), 23) = 1

\* C4: for every revision code exactly one scheme is used, chosen by bit 23
\* alone: the bit-field decode iff bit 23 is set, the table lookup iff it is
\* clear; and a PiInfo built from a legacy code has its three flags false.
C4_SchemeSelectedByBit23 ==
    /\ (decoded # NoResult /\ IsCode(revision_code)) =>
          /\ FromNewStyle(decoded) <=> CodeBit23(revision_code)
          /\ FromLegacy(decoded) <=> ~CodeBit23(revision_code)
          /\ IsPlainHex(revision_code) => (CodeBit23(revision_code) <=> TextBit23(revision_code))
    /\ (built # NoResult /\ "returned" \in DOMAIN built
        /\ ~CodeBit23(Strip(revision_code))) =>
          /\ ~built.returned.overvoltage_allowed
          /\ ~built.returned.otp_programming_allowed
          /\ ~built.returned.otp_reading_allowed

C4_Witness ==
    /\ revision_code = <<" ", "0", "0", "1", "0", "\n">>
    /\ built # NoResult
    /\ "returned" \in DOMAIN built
    /\ built.returned.model_type = "RPI_B_PLUS"
    /\ ~built.returned.overvoltage_allowed

\* C5: a code with bit 23 clear that is not a key of the legacy table fails
\* with the lookup error; no record (default or nearest key) is returned.
C5_UnknownLegacyCodeIsKeyError ==
    (/\ decoded # NoResult
     /\ IsCode(revision_code)
     /\ ~CodeBit23(revision_code)
     /\ SmallValue(Int16(revision_code)) \notin LegacyKeys)
        => decoded = KeyError

C5_Witness ==
    /\ revision_code = <<"1", "0", "0", "0", "0", "0", "0", "0", "d">>
    /\ decoded = KeyError

\* ---- C6 ----
\* The outcomes of the revision command the claim is about: the command
\* failed, printed nothing, or printed text that is not a base-16 number.
BadRevisionRun(run) ==
    \/ run.kind # "completed"
    \/ ~IsPlainHex(Strip(run.stdout))

BodyStarts(t) == th[t].run = NoRun /\ th'[t].run # NoRun /\ th'[t].cls = "PiInfo"

\* C6: when the revision command fails, prints nothing or prints text that is
\* not a base-16 number, the construction of PiInfo raises, the exception
\* reaches the caller of PiInfo(), no object is made and nothing is entered in
\* the registry, the lock is free again; and a caller that finds no entry in
\* the registry runs the constructor body (so a later call retries).
C6_FailedRevisionReadFailsConstruction ==
    [][\A t \in Threads :
         /\ (BodyStarts(t) /\ BadRevisionRun(th'[t].run)) =>
               /\ pc'[t] = "idle"
               /\ ret'[t].kind = "raised" /\ ret'[t].cls = "PiInfo"
               /\ th'[t].instance = 0
               /\ heap' = heap
               /\ instances' = instances /\ instances'["PiInfo"] = 0
               /\ lock' = 0
         /\ (pc[t] = "locked" /\ pc'[t] # "locked" /\ th[t].cls = "PiInfo"
                /\ instances["PiInfo"] = 0) => th'[t].run # NoRun]_vars

FetchCount(entries) ==
    Cardinality({i \in 1..Len(entries) : entries[i].msg = "Fetching board revision code..."})

\* A first construction failed on an empty output, and a later call ran the
\* body again and was returned an instance.
C6_Witness ==
    \E t \in Threads, u \in Threads :
        /\ ret[t].kind = "raised" /\ ret[t].cls = "PiInfo"
        /\ ret[t].exc = ValueErrorInt
        /\ th[t].run = Completed(<<>>)
        /\ ret[u].kind = "instance" /\ ret[u].cls = "PiInfo"
        /\ th[u].run # NoRun /\ ~th[u].early
        /\ FetchCount(log) = 2

\* ---- C7 ----
InCall == {t \in Threads : pc[t] \in {"locked", "store", "release"}}
EarlyCallers == {t \in Threads : th[t].cls = "PiInfo" /\ th[t].early}
PiInfoObjects == {i \in 1..Len(heap) : heap[i].cls = "PiInfo"}

\* C7 as stated: among the callers that called PiInfo() before any constructor
\* body had run, at most one runs the body, and those that were returned an
\* instance hold the same one.
C7_BodyRunsAtMostOnce ==
    /\ Cardinality({t \in EarlyCallers : th[t].run # NoRun}) <= 1
    /\ \A t \in EarlyCallers, u \in EarlyCallers :
          (pc[t] = "idle" /\ ret[t].kind = "instance" /\ pc[u] = "idle"
              /\ ret[u].kind = "instance") => ret[t].id = ret[u].id

\* C7, amended: the constructor body never runs in two threads at once and
\* completes at most once; once an instance is registered the body does not
\* run again and the entry does not change; every caller that is returned an
\* instance is returned the registered one.
C7_BodyCompletesAtMostOnce ==
    /\ [](/\ Cardinality(InCall) <= 1
          /\ InCall \subseteq {lock}
          /\ Cardinality(PiInfoObjects) <= 1
          /\ \A t \in Threads :
                (ret[t].kind = "instance" /\ ret[t].cls = "PiInfo") =>
                    ret[t].id = instances["PiInfo"] /\ ret[t].id \in PiInfoObjects)
    /\ [][instances["PiInfo"] # 0 =>
              /\ instances'["PiInfo"] = instances["PiInfo"]
              /\ FetchCount(log') = FetchCount(log)]_vars

\* Both threads called PiInfo() before any body ran, one ran it, and both hold
\* the same instance.
C7_Witness ==
    /\ EarlyCallers = Threads
    /\ \A t \in Threads : pc[t] = "idle" /\ ret[t].kind = "instance" /\ ret[t].cls = "PiInfo"
    /\ \E t \in Threads : th[t].run # NoRun
    /\ \E t \in Threads : th[t].run = NoRun

\* ---- C8 ----
\* C8: no step (a getter call, a read of a cached property, another PiInfo()
\* call, or any other) changes the identity fields of a constructed PiInfo
\* object, and the object stays the registered one.
C8_IdentityFieldsNeverChange ==
    [][\A i \in PiInfoObjects :
          /\ i <= Len(heap')
          /\ heap'[i].cls = "PiInfo"
          /\ heap'[i].identity = heap[i].identity
          /\ instances["PiInfo"] = i => instances'["PiInfo"] = i]_vars

\* A thread that called PiInfo() a second time holds the instance, and has read
\* a cached property from the cache.
C8_Witness ==
    \E t \in Threads :
        /\ th[t].calls = 2 /\ pc[t] = "idle"
        /\ ret[t].kind = "instance" /\ ret[t].cls = "PiInfo"
        /\ th[t].run = NoRun
        /\ th[t].got # NoGet /\ th[t].got.getter = "cpu_architecture" /\ ~th[t].got.ran
        /\ heap[ret[t].id].identity.revision_code = <<"a", "0", "3", "1", "1", "1">>

\* ---- C9 ----
\* C9: whatever the command does, the shell reader returns a value: no
\* exception leaves it.
C9_ReaderNeverRaises ==
    lastread # NoRead => "returned" \in DOMAIN lastread.out

\* ---- C10 ----
ErrorEntries(entries) == {i \in 1..Len(entries) : entries[i].level = "ERROR"}

\* C10: a run of the reader whose command failed wrote exactly one log entry,
\* at error level and naming the command; a run that completed wrote none.
C10_FailureLoggedExactlyOnce ==
    lastread # NoRead =>
        LET entries == lastread.out.logged IN
        IF lastread.run.kind = "completed"
        THEN entries = <<>>
        ELSE /\ Len(entries) = 1
             /\ entries[1].level = "ERROR"
             /\ entries[1].arg.command = lastread.command

(***************************************************************************)
(* Python str methods used by the fact getters                             *)
(***************************************************************************)
\* The position of the first "\n" of a text, 0 when it has none.
NewlineAt(s) ==
    IF \E i \in 1..Len(s) : s[i] = "\n"
    THEN CHOOSE i \in 1..Len(s) : s[i] = "\n" /\ \A j \in 1..(i - 1) : s[j] # "\n"
    ELSE 0

\* str.splitlines(), for "\n" line ends: a final line end opens no line.
RECURSIVE SplitLines(_)
SplitLines(s) ==
    IF s = <<>> THEN <<>>
    ELSE IF NewlineAt(s) = 0 THEN <<s>>
    ELSE <<SubSeq(s, 1, NewlineAt(s) - 1)>> \o SplitLines(SubSeq(s, NewlineAt(s) + 1, Len(s)))

\* str.split('\n'): the pieces between the separators, the last one included.
RECURSIVE SplitOnNewline(_)
SplitOnNewline(s) ==
    IF NewlineAt(s) = 0 THEN <<s>>
    ELSE <<SubSeq(s, 1, NewlineAt(s) - 1)>> \o
           SplitOnNewline(SubSeq(s, NewlineAt(s) + 1, Len(s)))

\* The first word of a text that starts with a non-blank character.
RECURSIVE FirstWord(_)
FirstWord(s) ==
    IF s = <<>> \/ Head(s) \in Whitespace THEN <<>>
    ELSE <<Head(s)>> \o FirstWord(Tail(s))

\* str.split(maxsplit=n): at most n splits at runs of whitespace; what is left
\* after the n-th split is one more piece, its trailing whitespace kept.
RECURSIVE SplitMax(_, _)
SplitMax(s, n) ==
    LET t == LStrip(s) IN
    IF t = <<>> THEN <<>>
    ELSE IF n = 0 THEN <<t>>
    ELSE LET w == FirstWord(t) IN
         <<w>> \o SplitMax(SubSeq(t, Len(w) + 1, Len(t)), n - 1)

\* str.split(): the words between runs of whitespace.
RECURSIVE Split(_)
Split(s) ==
    LET t == LStrip(s) IN
    IF t = <<>> THEN <<>>
    ELSE LET w == FirstWord(t) IN <<w>> \o Split(SubSeq(t, Len(w) + 1, Len(t)))

\* sep.join(words)
RECURSIVE Join(_, _)
Join(sep, words) ==
    IF words = <<>> THEN <<>>
    ELSE IF Len(words) = 1 THEN words[1]
    ELSE words[1] \o sep \o Join(sep, Tail(words))

\* words[i:j] with Python's 0-based bounds, negative ones counted from the end.
Slice(words, i, j) ==
    LET n == Len(words)
        lo == IF i < 0 THEN (IF n + i < 0 THEN 0 ELSE n + i) ELSE (IF i > n THEN n ELSE i)
        hi == IF j < 0 THEN (IF n + j < 0 THEN 0 ELSE n + j) ELSE (IF j > n THEN n ELSE j)
    IN  SubSeq(words, lo + 1, hi)

\* list.index(word), 0-based; -1 stands for the ValueError of a missing word.
IndexOf(words, word) ==
    IF \E i \in 1..Len(words) : words[i] = word
    THEN (CHOOSE i \in 1..Len(words) :
              words[i] = word /\ \A j \in 1..(i - 1) : words[j] # word) - 1
    ELSE -1

\* str.replace(c, ''), for a one-character c.
RECURSIVE Remove(_, _)
Remove(s, c) ==
    IF s = <<>> THEN <<>>
    ELSE (IF Head(s) = c THEN <<>> ELSE <<Head(s)>>) \o Remove(Tail(s), c)

\* str.strip(c), for a one-character c.
RECURSIVE StripChar(_, _)
StripChar(s, c) ==
    IF s # <<>> /\ Head(s) = c THEN StripChar(Tail(s), c)
    ELSE IF s # <<>> /\ s[Len(s)] = c THEN StripChar(SubSeq(s, 1, Len(s) - 1), c)
    ELSE s

Lower26 == <<"a", "b", "c", "d", "e", "f", "g", "h", "i", "j", "k", "l", "m", "n", "o", "p", "q", "r", "s", "t", "u", "v", "w", "x", "y", "z">>
Upper26 == <<"A", "B", "C", "D", "E", "F", "G", "H", "I", "J", "K", "L", "M", "N", "O", "P", "Q", "R", "S", "T", "U", "V", "W", "X", "Y", "Z">>

UpperChar(c) ==
    IF \E i \in 1..26 : Lower26[i] = c
    THEN Upper26[CHOOSE i \in 1..26 : Lower26[i] = c]
    ELSE c

\* str.upper()
Upper(s) == [i \in 1..Len(s) |-> UpperChar(s[i])]

\* needle in s
Contains(s, needle) ==
    \E i \in 1..(Len(s) - Len(needle) + 1) : SubSeq(s, i, i + Len(needle) - 1) = needle

\* s.startswith(prefix)
StartsWith(s, prefix) ==
    Len(s) >= Len(prefix) /\ SubSeq(s, 1, Len(prefix)) = prefix

(***************************************************************************)
(* Python numbers: int(text), float(text), convert_frequency               *)
(***************************************************************************)
IsDigit(c) == HexDigitValue(c) \in 0..9

IntVal(n) == [int |-> n]

RECURSIVE GCD(_, _)
GCD(a, b) == IF b = 0 THEN a ELSE GCD(b, a % b)

\* A finite float, kept as the fraction num/den in lowest terms (den > 0): the
\* values handled are short decimals and their quotients by powers of ten, and
\* the rounding of the binary representation is left out.
Float(num, den) ==
    LET g == GCD(IF num < 0 THEN -num ELSE num, den)
    IN  [float |-> <<num \div g, den \div g>>]

NonFinite(name) == [nonfinite |-> name]

IsFloat(x) == "float" \in DOMAIN x \/ "nonfinite" \in DOMAIN x
IsInt(x) == "int" \in DOMAIN x

ValueErrorFloat == Exc("ValueError", "float")
TypeErrorFloatExpected == Exc("TypeError", "float_to_int_if_zero_fraction")
IncorrectFrequencyUnitError == Exc("IncorrectFrequencyUnitError", "convert_frequency")

RECURSIVE DecimalValue(_, _)
DecimalValue(digits, acc) ==
    IF digits = <<>> THEN acc
    ELSE DecimalValue(Tail(digits), 10 * acc + HexDigitValue(Head(digits)))

RECURSIVE Pow10(_)
Pow10(k) == IF k = 0 THEN 1 ELSE 10 * Pow10(k - 1)

AllDigits(s) == \A i \in 1..Len(s) : IsDigit(s[i])

\* The text without its sign, and whether the sign was a minus.
Unsigned(t) == IF t # <<>> /\ Head(t) \in {"+", "-"} THEN Tail(t) ELSE t
IsNegative(t) == t # <<>> /\ Head(t) = "-"

\* int(text): surrounding whitespace, an optional sign, one or more decimal digits.
IntOf(text) ==
    LET t == Strip(text)
        d == Unsigned(t)
    IN  IF d # <<>> /\ AllDigits(d)
        THEN IntVal(IF IsNegative(t) THEN -DecimalValue(d, 0) ELSE DecimalValue(d, 0))
        ELSE ValueErrorInt

\* float(text): surrounding whitespace, an optional sign, then nan, inf or
\* infinity, or decimal digits with at most one point and at least one digit.
FloatOf(text) ==
    LET t == Strip(text)
        d == Unsigned(t)
        sign == IF IsNegative(t) THEN -1 ELSE 1
        points == {i \in 1..Len(d) : d[i] = "."}
    IN  IF Upper(d) = <<"N", "A", "N">> THEN NonFinite("nan")
        ELSE IF Upper(d) \in {<<"I", "N", "F">>, <<"I", "N", "F", "I", "N", "I", "T", "Y">>}
             THEN NonFinite(IF sign < 0 THEN "-inf" ELSE "inf")
        ELSE IF points = {} THEN
             (IF d # <<>> /\ AllDigits(d) THEN Float(sign * DecimalValue(d, 0), 1)
              ELSE ValueErrorFloat)
        ELSE IF Cardinality(points) = 1 THEN
             LET p == CHOOSE i \in points : TRUE
                 whole == SubSeq(d, 1, p - 1)
                 frac == SubSeq(d, p + 1, Len(d))
             IN  IF AllDigits(whole) /\ AllDigits(frac) /\ Len(whole) + Len(frac) > 0
                 THEN Float(sign * DecimalValue(whole \o frac, 0), Pow10(Len(frac)))
                 ELSE ValueErrorFloat
        ELSE ValueErrorFloat

\* x * n and x / n for a number x and a positive int n; the quotient of two
\* ints is a float, as the quotient of a float and an int.
Times(x, n) ==
    IF IsInt(x) THEN IntVal(x.int * n)
    ELSE IF "float" \in DOMAIN x THEN Float(x.float[1] * n, x.float[2])
    ELSE x

TrueDiv(x, n) ==
    IF IsInt(x) THEN Float(x.int, n)
    ELSE IF "float" \in DOMAIN x THEN Float(x.float[1], x.float[2] * n)
    ELSE x

FloorDiv(x, n) == IntVal(x.int \div n)

\* PiInfo.float_to_int_if_zero_fraction
float_to_int_if_zero_fraction(x) ==
    IF IsFloat(x)
    THEN (IF "float" \in DOMAIN x /\ x.float[2] = 1 THEN IntVal(x.float[1]) ELSE x)
    ELSE TypeErrorFloatExpected

FrequencyUnits == {"Hz", "KHz", "MHz", "GHz"}

\* PiInfo.convert_frequency
convert_frequency(frequency, unit) ==
    CASE unit = "Hz" -> float_to_int_if_zero_fraction(frequency)
      [] unit = "KHz" -> float_to_int_if_zero_fraction(TrueDiv(frequency, 1000))
      [] unit = "MHz" -> float_to_int_if_zero_fraction(TrueDiv(frequency, 1000000))
      [] unit = "GHz" -> float_to_int_if_zero_fraction(TrueDiv(frequency, 1000000000))
      [] OTHER -> IncorrectFrequencyUnitError

(***************************************************************************)
(* The fact getters of PiInfo that convert one value                       *)
(***************************************************************************)
\* What a fact request did: the value it returned or the exception that left
\* it, the log entries written meanwhile, and the reader calls it made.
Got(value, logged, reads) == [returned |-> value, logged |-> logged, reads |-> reads]
Threw(exc, logged, reads) == [raised |-> exc, logged |-> logged, reads |-> reads]

Dict(d) == [dict |-> d]
List(l) == [list |-> l]

\* The reader's exception leaves a getter that calls it outside any try.
ReaderRaised(r) == Threw(r.out.raised, r.out.logged, <<r>>)

\* PiInfo.cpu_cores_count (the body of the cached property)
cpu_cores_count(run) ==
    LET r == Read("PiInfo", "nproc", run) IN
    IF Raised(r.out) THEN ReaderRaised(r)
    ELSE LET result == r.out.returned.str
             n == IntOf(result)
         IN  IF Raised(n)
             THEN Got(IntVal(0),
                      r.out.logged \o
                        <<LogEntry("ERROR", "Error while converting number of cores to int",
                                   [value |-> result])>>, <<r>>)
             ELSE Got(n, r.out.logged, <<r>>)

\* PiInfo.get_cpu_temperature
get_cpu_temperature(run) ==
    LET r == Read("PiInfo", "vcgencmd measure_temp | cut -d= -f2 | cut -d\\' -f1", run) IN
    IF Raised(r.out) THEN ReaderRaised(r)
    ELSE LET result == r.out.returned.str
             x == FloatOf(result)
         IN  IF Raised(x)
             THEN Got(None,
                      r.out.logged \o
                        <<LogEntry("ERROR", "Error while converting CPU temperature to float",
                                   [value |-> result])>>, <<r>>)
             ELSE Got(x, r.out.logged, <<r>>)

\* PiInfo.get_cpu_core_voltage: the last character (the unit) is cut off.
get_cpu_core_voltage(run) ==
    LET r == Read("PiInfo", "vcgencmd measure_volts| cut -d= -f2", run) IN
    IF Raised(r.out) THEN ReaderRaised(r)
    ELSE LET result == r.out.returned.str
             x == FloatOf(Slice(result, 0, -1))
         IN  IF Raised(x)
             THEN Got(None,
                      r.out.logged \o
                        <<LogEntry("ERROR", "Error while converting CPU voltage to float",
                                   [value |-> result])>>, <<r>>)
             ELSE Got(x, r.out.logged, <<r>>)

\* '; '.join(descriptions)
RECURSIVE JoinPhrases(_)
JoinPhrases(phrases) ==
    IF Len(phrases) = 1 THEN phrases[1]
    ELSE phrases[1] \o "; " \o JoinPhrases(Tail(phrases))

ThrottledStatus(code) ==
    LET flag(i) == Bit(code, i) = 1
        descriptions ==
            (IF flag(0) THEN <<"Undervoltage detected">> ELSE <<>>) \o
            (IF flag(1) THEN <<"Arm frequency capped">> ELSE <<>>) \o
            (IF flag(2) THEN <<"Currently throttled">> ELSE <<>>) \o
            (IF flag(3) THEN <<"Soft temperature limit active">> ELSE <<>>)
    IN  [raw_value |-> code,
         description |-> JoinPhrases(IF descriptions = <<>> THEN <<"No active issues">>
                                     ELSE descriptions),
         under_voltage |-> flag(0),
         arm_frequency_capped |-> flag(1),
         currently_throttled |-> flag(2),
         soft_temperature_limit |-> flag(3),
         under_voltage_occurred |-> flag(16),
         arm_frequency_capped_occurred |-> flag(17),
         throttling_occurred |-> flag(18),
         soft_temperature_limit_occurred |-> flag(19)]

\* PiInfo.get_throttled_state
get_throttled_state(run) ==
    LET r == Read("PiInfo", "vcgencmd get_throttled | cut -d= -f2", run) IN
    IF Raised(r.out) THEN ReaderRaised(r)
    ELSE LET throttled == StripChar(r.out.returned.str, "\"")
             throttled_int == Int16(throttled)
         IN  IF Raised(throttled_int)
             THEN Got(None,
                      r.out.logged \o
                        <<LogEntry("ERROR", "Error while converting throttled value to int",
                                   [value |-> throttled])>>, <<r>>)
             ELSE Got(Dict(ThrottledStatus(throttled_int)), r.out.logged, <<r>>)

\* str.split(c), for a one-character c.
RECURSIVE SplitOnFrom(_, _, _)
SplitOnFrom(s, c, cur) ==
    IF s = <<>> THEN <<cur>>
    ELSE IF Head(s) = c THEN <<cur>> \o SplitOnFrom(Tail(s), c, <<>>)
    ELSE SplitOnFrom(Tail(s), c, Append(cur, Head(s)))

SplitOn(s, c) == SplitOnFrom(s, c, <<>>)

ValueErrorStrptime == Exc("ValueError", "strptime")

\* One numeric field of a strptime format: one or two digits (four for %Y)
\* within the field's range; -1 when the text is not such a field.
TimeField(s, minLen, maxLen, lo, hi) ==
    IF Len(s) \in minLen..maxLen /\ AllDigits(s)
          /\ DecimalValue(s, 0) \in lo..hi
    THEN DecimalValue(s, 0) ELSE -1

DaysInMonth(y, m) ==
    IF m = 2 THEN (IF (y % 4 = 0 /\ y % 100 # 0) \/ y % 400 = 0 THEN 29 ELSE 28)
    ELSE IF m \in {4, 6, 9, 11} THEN 30 ELSE 31

\* The datetime of (year, month, day, hour, minute, second) texts, or the
\* ValueError of a field out of range or of a day the month does not have.
DateTimeOf(Y, m, d, H, M, S) ==
    LET y == TimeField(Y, 4, 4, 1, 9999)
        mo == TimeField(m, 1, 2, 1, 12)
        da == TimeField(d, 1, 2, 1, 31)
        h == TimeField(H, 1, 2, 0, 23)
        mi == TimeField(M, 1, 2, 0, 59)
        se == TimeField(S, 1, 2, 0, 59)
    IN  IF y < 0 \/ mo < 0 \/ da < 0 \/ h < 0 \/ mi < 0 \/ se < 0 THEN ValueErrorStrptime
        ELSE IF da > DaysInMonth(y, mo) THEN ValueErrorStrptime
        ELSE [datetime |-> <<y, mo, da, h, mi, se>>]

\* datetime.strptime(text, "%Y-%m-%d %H:%M:%S")
StrptimeIso(text) ==
    LET words == Split(text)
        date == IF Len(words) = 2 THEN SplitOn(words[1], "-") ELSE <<>>
        time == IF Len(words) = 2 THEN SplitOn(words[2], ":") ELSE <<>>
    IN  IF text = <<>> \/ Head(text) \in Whitespace \/ text[Len(text)] \in Whitespace
        THEN ValueErrorStrptime
        ELSE IF Len(date) # 3 \/ Len(time) # 3 THEN ValueErrorStrptime
        ELSE DateTimeOf(date[1], date[2], date[3], time[1], time[2], time[3])

\* PiInfo.boot_time (the body of the cached property): strptime is called
\* outside any try.
boot_time(run) ==
    LET r == Read("PiInfo", "uptime -s", run) IN
    IF Raised(r.out) THEN ReaderRaised(r)
    ELSE LET uptime_str == r.out.returned.str IN
         IF uptime_str = <<>> THEN Got(None, r.out.logged, <<r>>)
         ELSE LET t == StrptimeIso(uptime_str) IN
              IF Raised(t) THEN Threw(t, r.out.logged, <<r>>)
              ELSE Got(t, r.out.logged, <<r>>)

\* PiInfo.get_bluetooth_mac_address: the second word of the second line.
get_bluetooth_mac_address(run) ==
    LET r == Read("PiInfo", "hcitool dev", run) IN
    IF Raised(r.out) THEN ReaderRaised(r)
    ELSE LET address == r.out.returned.str
             lines == SplitOnNewline(address)
             words == IF Len(lines) >= 2 THEN Split(lines[2]) ELSE <<>>
         IN  IF address = <<>> THEN Got(Str(<<>>), r.out.logged, <<r>>)
             ELSE IF Len(words) >= 2 THEN Got(Str(Upper(words[2])), r.out.logged, <<r>>)
             ELSE Got(Str(<<>>),
                      r.out.logged \o
                        <<LogEntry("ERROR", "Failed to parse hcitool dev command output",
                                   [value |-> address, error |-> "IndexError"])>>, <<r>>)

(***************************************************************************)
(* PiInfo.get_network_interface_info                                       *)
(***************************************************************************)
\* The index after the longest run of digits that starts at index i (\d+).
RECURSIVE DigitsEnd(_, _)
DigitsEnd(s, i) == IF i <= Len(s) /\ IsDigit(s[i]) THEN DigitsEnd(s, i + 1) ELSE i

\* The index after a match of \d+\.\d+\.\d+\.\d+ that starts at index i, 0 for none.
DottedQuadEnd(s, i) ==
    LET a == DigitsEnd(s, i)
        b == DigitsEnd(s, a + 1)
        c == DigitsEnd(s, b + 1)
        d == DigitsEnd(s, c + 1)
        dot(k) == k <= Len(s) /\ s[k] = "."
    IN  IF a > i /\ dot(a) /\ b > a + 1 /\ dot(b) /\ c > b + 1 /\ dot(c) /\ d > c + 1
        THEN d ELSE 0

NoMatch == [matched |-> FALSE]

\* The text has `word` at index i.
HasAt(s, i, word) ==
    i + Len(word) - 1 <= Len(s) /\ SubSeq(s, i, i + Len(word) - 1) = word

\* re.search(prefix + r'(\d+\.\d+\.\d+\.\d+)', s): the leftmost match.
SearchAddress(s, prefix) ==
    LET n == Len(prefix)
        hits == {i \in 1..Len(s) : HasAt(s, i, prefix) /\ DottedQuadEnd(s, i + n) > 0}
    IN  IF hits = {} THEN NoMatch
        ELSE LET i == CHOOSE h \in hits : \A k \in hits : h <= k
             IN  [matched |-> TRUE, address |-> SubSeq(s, i + n, DottedQuadEnd(s, i + n) - 1)]

\* re.search(r'inet (\d+\.\d+\.\d+\.\d+)/(\d+)', s)
SearchInet(s) ==
    LET prefix == <<"i", "n", "e", "t", " ">>
        n == Len(prefix)
        ends(i) == DottedQuadEnd(s, i + n)
        hit(i) == /\ HasAt(s, i, prefix)
                  /\ ends(i) > 0
                  /\ ends(i) <= Len(s) /\ s[ends(i)] = "/"
                  /\ DigitsEnd(s, ends(i) + 1) > ends(i) + 1
        hits == {i \in 1..Len(s) : hit(i)}
    IN  IF hits = {} THEN NoMatch
        ELSE LET i == CHOOSE h \in hits : \A k \in hits : h <= k
             IN  [matched |-> TRUE,
                  address |-> SubSeq(s, i + n, ends(i) - 1),
                  prefix_len |-> SubSeq(s, ends(i) + 1, DigitsEnd(s, ends(i) + 1) - 1)]

\* re.search(r'^default via (\d+\.\d+\.\d+\.\d+)', s): at the start of the text only.
SearchGateway(s) ==
    LET prefix == <<"d", "e", "f", "a", "u", "l", "t", " ", "v", "i", "a", " ">>
        n == Len(prefix)
    IN  IF HasAt(s, 1, prefix) /\ DottedQuadEnd(s, n + 1) > 0
        THEN [matched |-> TRUE, address |-> SubSeq(s, n + 1, DottedQuadEnd(s, n + 1) - 1)]
        ELSE NoMatch

\* Bit i of (0xffffffff << shift) & 0xffffffff.
MaskBit(shift, i) == IF i >= shift /\ i <= 31 THEN 1 ELSE 0

\* (mask >> lo) & 0xff
MaskByte(shift, lo) ==
    MaskBit(shift, lo) + 2 * MaskBit(shift, lo + 1) + 4 * MaskBit(shift, lo + 2)
      + 8 * MaskBit(shift, lo + 3) + 16 * MaskBit(shift, lo + 4)
      + 32 * MaskBit(shift, lo + 5) + 64 * MaskBit(shift, lo + 6)
      + 128 * MaskBit(shift, lo + 7)

\* str(n) for n >= 0, as a sequence of characters.
RECURSIVE DecChars(_)
DecChars(n) ==
    IF n < 10 THEN <<LowerHex[n + 1]>>
    ELSE DecChars(n \div 10) \o <<LowerHex[(n % 10) + 1]>>

\* A mask shifted by the prefix length itself.
DottedMask_ShiftByPrefix(prefix_len) ==
    Join(<<".">>, <<DecChars(MaskByte(prefix_len, 24)), DecChars(MaskByte(prefix_len, 16)),
                    DecChars(MaskByte(prefix_len, 8)), DecChars(MaskByte(prefix_len, 0))>>)

\* ".".join(map(str, mask_bytes)) for a prefix length of at most 32.
DottedMask(prefix_len) ==
    LET shift == 32 - prefix_len IN
    Join(<<".">>, <<DecChars(MaskByte(shift, 24)), DecChars(MaskByte(shift, 16)),
                    DecChars(MaskByte(shift, 8)), DecChars(MaskByte(shift, 0))>>)

\* os.listdir(self._NET_PATH): the names found, or the exception raised.
Listed(names) == [kind |-> "listed", names |-> names]
ListdirError(name) == [kind |-> name]

EmptyNicInfo ==
    [mac |-> <<>>, ip |-> <<>>, mask |-> <<>>, broadcast |-> <<>>, gateway |-> <<>>,
     state |-> <<>>]

\* except Exception in the inner try: one error entry, the record as filled so far.
NicUnexpected(nic_info, interface, exc, logged, reads) ==
    Got(Dict(nic_info),
        logged \o <<LogEntry("ERROR", "Unexpected error while retrieving interface information",
                             [interface |-> interface, error |-> exc])>>,
        reads)

\* The part of the inner try that follows a parsed `ip -4 addr show` output.
NicAddressed(nic_info, interface, ip_match, broadcast_match, route, logged, reads) ==
    LET prefix_len == DecimalValue(ip_match.prefix_len, 0)
        addressed == [nic_info EXCEPT !.ip = ip_match.address,
                                      !.broadcast = broadcast_match.address]
        r4 == Read("PiInfo", "ip route show | grep ^def.*" \o interface, route)
    IN  IF prefix_len > 32
        THEN NicUnexpected(addressed, interface, Exc("ValueError", "negative shift count"),
                           logged, reads)
        ELSE LET masked == [addressed EXCEPT !.mask = DottedMask(prefix_len)] IN
             IF Raised(r4.out)
             THEN NicUnexpected(masked, interface, r4.out.raised,
                                logged \o r4.out.logged, Append(reads, r4))
             ELSE LET gateway_match == SearchGateway(r4.out.returned.str) IN
                  Got(Dict(IF gateway_match.matched
                           THEN [masked EXCEPT !.gateway = gateway_match.address]
                           ELSE masked),
                      logged \o r4.out.logged, Append(reads, r4))

\* The part of the inner try that follows an interface found up.
NicUp(nic_info, interface, runs, logged, reads) ==
    LET r3 == Read("PiInfo", "ip -4 addr show " \o interface, runs.addr)
        up == [nic_info EXCEPT !.state = <<"U", "P">>]
    IN  IF Raised(r3.out)
        THEN NicUnexpected(up, interface, r3.out.raised, logged \o r3.out.logged,
                           Append(reads, r3))
        ELSE LET ip_addr_output == r3.out.returned.str
                 ip_match == SearchInet(ip_addr_output)
                 broadcast_match == SearchAddress(ip_addr_output, <<"b", "r", "d", " ">>)
             IN  IF ~ip_match.matched \/ ~broadcast_match.matched
                 THEN Got(Dict(up),
                          logged \o r3.out.logged \o
                            <<LogEntry("ERROR", "Failed to parse 'ip addr' command output",
                                       [value |-> ip_addr_output])>>,
                          Append(reads, r3))
                 ELSE NicAddressed(up, interface, ip_match, broadcast_match, runs.route,
                                   logged \o r3.out.logged, Append(reads, r3))

\* The inner try, for an interface that is listed.
NicListed(interface, runs) ==
    LET r1 == Read("PiInfo", "cat /sys/class/net/" \o interface \o "/address", runs.mac)
        r2 == Read("PiInfo", "ip -o link show " \o interface, runs.link)
    IN  IF Raised(r1.out)
        THEN NicUnexpected(EmptyNicInfo, interface, r1.out.raised, r1.out.logged, <<r1>>)
        ELSE LET with_mac == [EmptyNicInfo EXCEPT !.mac = Upper(r1.out.returned.str)] IN
             IF Raised(r2.out)
             THEN NicUnexpected(with_mac, interface, r2.out.raised,
                                r1.out.logged \o r2.out.logged, <<r1, r2>>)
             ELSE LET ip_link_output == r2.out.returned.str IN
                  IF ~Contains(ip_link_output, <<"s", "t", "a", "t", "e", " ", "U", "P">>)
                        /\ ~Contains(ip_link_output, <<"L", "O", "W", "E", "R", "_", "U", "P">>)
                  THEN Got(Dict([with_mac EXCEPT !.state = <<"D", "O", "W", "N">>]),
                           r1.out.logged \o r2.out.logged \o
                             <<LogEntry("WARNING", "Interface is DOWN",
                                        [interface |-> interface])>>,
                           <<r1, r2>>)
                  ELSE NicUp(with_mac, interface, runs, r1.out.logged \o r2.out.logged,
                             <<r1, r2>>)

\* The getter without the test of the interface against the directory.
get_network_interface_info_Unchecked(interface, listing, runs) == NicListed(interface, runs)

\* PiInfo.get_network_interface_info
get_network_interface_info(interface, listing, runs) ==
    CASE listing.kind = "listed" ->
            IF interface \in listing.names THEN NicListed(interface, runs)
            ELSE Got(Dict(EmptyNicInfo),
                     <<LogEntry("ERROR", "Incorrect network interface",
                                [interface |-> interface])>>, <<>>)
      [] listing.kind = "FileNotFoundError" ->
            Got(Dict(EmptyNicInfo),
                <<LogEntry("ERROR", "Can not load network interface info",
                           [path |-> "/sys/class/net"])>>, <<>>)
      [] OTHER -> Threw(Exc(listing.kind, "os.listdir"), <<>>, <<>>)

(***************************************************************************)
(* The list parsers: Wi-Fi networks, disks, processes                      *)
(***************************************************************************)
\* words[i] with Python's 0-based index, negative ones counted from the end.
HasIndex(words, i) == i \in (-Len(words))..(Len(words) - 1)
At(words, i) == words[IF i < 0 THEN Len(words) + i + 1 ELSE i + 1]

MbitToken == <<"M", "b", "i", "t", "/", "s">>

\* The dict built from the words of one scan row, or the exception raised on
\* the way: ValueError when no word is "Mbit/s", IndexError when a word that
\* is picked by its distance from that token is missing.
WifiNetwork(values) ==
    LET k == IndexOf(values, MbitToken) IN
    IF k < 0 THEN Exc("ValueError", "values.index")
    ELSE IF ~(HasIndex(values, 0) /\ HasIndex(values, k - 3) /\ HasIndex(values, k - 2)
                /\ HasIndex(values, k + 1) /\ HasIndex(values, k + 2))
         THEN Exc("IndexError", "values[]")
    ELSE Dict([ssid |-> Join(<<" ">>, Slice(values, 1, k - 3)),
               bssid |-> At(values, 0),
               mode |-> At(values, k - 3),
               channel |-> At(values, k - 2),
               rate |-> Join(<<" ">>, Slice(values, k - 1, k + 1)),
               signal |-> At(values, k + 1),
               bars |-> At(values, k + 2),
               security |-> Join(<<" ">>, Slice(values, k + 3, Len(values)))])

\* The words of a row as PiInfo takes them: without the in-use marker.
WifiValues(line) ==
    IF StartsWith(line, <<"*">>) THEN Tail(Split(line)) ELSE Split(line)

\* The for loop over the rows: the networks appended so far, and the
\* exception that ended the loop, if any.
RECURSIVE WifiLoop(_, _, _)
WifiLoop(lines, stripMarker, networks) ==
    IF lines = <<>> THEN [networks |-> networks, failed |-> FALSE]
    ELSE LET values == IF stripMarker THEN WifiValues(Head(lines)) ELSE Split(Head(lines))
             network == WifiNetwork(values)
         IN  IF Raised(network)
             THEN [networks |-> networks, failed |-> TRUE, error |-> network]
             ELSE WifiLoop(Tail(lines), stripMarker, Append(networks, network))

\* PiInfo.get_available_wifi_networks
PiInfo_get_available_wifi_networks(run) ==
    LET r == Read("PiInfo", "nmcli dev wifi list", run) IN
    IF Raised(r.out) THEN ReaderRaised(r)
    ELSE LET output == r.out.returned.str
             lines == Tail(SplitLines(output))
             loop == WifiLoop(lines, TRUE, <<>>)
         IN  IF output = <<>> THEN Got(List(<<>>), r.out.logged, <<r>>)
             ELSE IF lines = <<>>
                  THEN Got(List(<<>>),
                           r.out.logged \o
                             <<LogEntry("WARNING", "No Wi-Fi networks information available",
                                        <<>>)>>, <<r>>)
             ELSE IF loop.failed
                  THEN Got(List(loop.networks),
                           r.out.logged \o
                             <<LogEntry("ERROR",
                                        "Unexpected error while retrieving Wi-Fi networks info",
                                        [error |-> loop.error])>>, <<r>>)
             ELSE Got(List(loop.networks), r.out.logged, <<r>>)

\* PiSystemInfo.get_available_wifi_networks
PiSystemInfo_get_available_wifi_networks(run) ==
    LET r == Read("PiSystemInfo", "nmcli dev wifi", run) IN
    IF Raised(r.out) THEN ReaderRaised(r)
    ELSE IF IsNone(r.out.returned) THEN Got(None, r.out.logged, <<r>>)
    ELSE LET output == r.out.returned.str
             lines == IF output = <<>> THEN <<>> ELSE Tail(SplitLines(output))
             loop == WifiLoop(lines, FALSE, <<>>)
         IN  IF lines = <<>>
             THEN Got(None,
                      r.out.logged \o
                        <<LogEntry("WARNING", "No Wi-Fi netwworks information available",
                                   <<>>)>>, <<r>>)
             ELSE IF loop.failed
                  THEN Got(None,
                           r.out.logged \o
                             <<LogEntry("ERROR", "Unexpected error getting Wi-Fi networks info",
                                        [error |-> loop.error])>>, <<r>>)
             ELSE Got(List(loop.networks), r.out.logged, <<r>>)

DiskInfo_KeepPercent(values) ==
    Dict([filesystem |-> values[1], size |-> values[2], used |-> values[3],
          available |-> values[4], use_percent |-> values[5], mounted_on |-> values[6]])

\* dict(zip(headers, values)) with the '%' taken out of use_percent.
DiskInfo(values) ==
    Dict([filesystem |-> values[1], size |-> values[2], used |-> values[3],
          available |-> values[4], use_percent |-> Remove(values[5], "%"),
          mounted_on |-> values[6]])


\* if len(values) != 6: continue
DiskRowKept(values) == Len(values) = 6

\* The for loop over the rows of df.
RECURSIVE DiskLoop(_)
DiskLoop(lines) ==
    IF lines = <<>> THEN <<>>
    ELSE LET values == SplitMax(Head(lines), 5) IN
         (IF DiskRowKept(values) THEN <<DiskInfo(values)>> ELSE <<>>) \o DiskLoop(Tail(lines))

DisksCommand ==
    "df -h --output=source,size,used,avail,pcent,target | head -n 1; df -h | tail -n +2 | sort -k6"

\* PiInfo.get_disks_info
get_disks_info(run) ==
    LET r == Read("PiInfo", DisksCommand, run) IN
    IF Raised(r.out) THEN ReaderRaised(r)
    ELSE LET output == r.out.returned.str
             lines == Tail(SplitLines(output))
         IN  IF output = <<>> THEN Got(List(<<>>), r.out.logged, <<r>>)
             ELSE IF lines = <<>>
                  THEN Got(List(<<>>),
                           r.out.logged \o
                             <<LogEntry("WARNING", "No disk usage information available",
                                        <<>>)>>, <<r>>)
             ELSE Got(List(DiskLoop(lines)), r.out.logged, <<r>>)

\* PiSystemInfo.get_disk_usage_info
get_disk_usage_info(run) ==
    LET r == Read("PiSystemInfo", DisksCommand, run) IN
    IF Raised(r.out) THEN ReaderRaised(r)
    ELSE IF IsNone(r.out.returned) THEN Got(None, r.out.logged, <<r>>)
    ELSE LET output == r.out.returned.str
             lines == IF output = <<>> THEN <<>> ELSE Tail(SplitLines(output))
         IN  IF lines = <<>>
             THEN Got(None,
                      r.out.logged \o
                        <<LogEntry("WARNING", "No disk usage information available",
                                   <<>>)>>, <<r>>)
             ELSE Got(List(DiskLoop(lines)), r.out.logged, <<r>>)

WeekdayNames == <<<<"M", "O", "N">>, <<"T", "U", "E">>, <<"W", "E", "D">>, <<"T", "H", "U">>, <<"F", "R", "I">>, <<"S", "A", "T">>, <<"S", "U", "N">>>>
MonthNames ==
    <<<<"J", "A", "N">>, <<"F", "E", "B">>, <<"M", "A", "R">>, <<"A", "P", "R">>, <<"M", "A", "Y">>, <<"J", "U", "N">>, <<"J", "U", "L">>, <<"A", "U", "G">>, <<"S", "E", "P">>, <<"O", "C", "T">>,
      <<"N", "O", "V">>, <<"D", "E", "C">>>>

\* datetime.strptime(" ".join(words), "%a %b %d %H:%M:%S %Y"): the names are
\* matched in any case, and the weekday is not checked against the date.
StrptimeLstart(words) ==
    IF Len(words) # 5 THEN ValueErrorStrptime
    ELSE LET time == SplitOn(words[4], ":")
             months == {i \in 1..12 : MonthNames[i] = Upper(words[2])}
         IN  IF (\A i \in 1..7 : WeekdayNames[i] # Upper(words[1])) \/ months = {}
                   \/ Len(time) # 3
             THEN ValueErrorStrptime
             ELSE DateTimeOf(words[5], DecChars(CHOOSE i \in months : TRUE), words[3],
                             time[1], time[2], time[3])

\* The dict built from the words of one ps row, or the exception raised on
\* the way (IndexError for a missing word, ValueError from float or strptime).
ProcessInfo(parts) ==
    IF Len(parts) < 3 THEN Exc("IndexError", "parts[]")
    ELSE LET cpu == FloatOf(parts[3]) IN
         IF Raised(cpu) THEN cpu
         ELSE IF Len(parts) < 4 THEN Exc("IndexError", "parts[]")
         ELSE LET mem == FloatOf(parts[4])
                  started == StrptimeLstart(Slice(parts, -5, Len(parts)))
              IN  IF Raised(mem) THEN mem
                  ELSE IF Raised(started) THEN started
                  ELSE Dict([user |-> parts[1], pid |-> parts[2], cpu_percent |-> cpu,
                             mem_percent |-> mem,
                             command |-> Join(<<" ">>, Slice(parts, 4, -5)),
                             started_on |-> started])

\* The for loop over the rows of ps: the processes kept and the warnings
\* logged for the rows skipped.
RECURSIVE ProcessLoop(_, _)
ProcessLoop(lines, done) ==
    IF lines = <<>> THEN done
    ELSE LET process_info == ProcessInfo(Split(Head(lines))) IN
         ProcessLoop(Tail(lines),
             IF Raised(process_info)
             THEN [done EXCEPT !.logged =
                      Append(@, LogEntry("WARNING", "Skipping malformed process line",
                                         [line |-> Head(lines), error |-> process_info]))]
             ELSE [done EXCEPT !.processes = Append(@, process_info)])

ProcessesCommand == "ps -eo user,pid,pcpu,pmem,comm,lstart --sort=-pcpu"

NewProcessList_KeepPrevious(previous) == previous

\* processes = []: each call starts from a new list, whatever earlier calls returned.
NewProcessList(previous) == <<>>

\* PiInfo.get_processes_info
get_processes_info(run, previous) ==
    LET r == Read("PiInfo", ProcessesCommand, run) IN
    IF Raised(r.out) THEN ReaderRaised(r)
    ELSE LET output == r.out.returned.str
             lines == Tail(SplitLines(output))
             processes == NewProcessList(previous)
             loop == ProcessLoop(lines, [processes |-> processes, logged |-> <<>>])
         IN  IF output = <<>> THEN Got(List(processes), r.out.logged, <<r>>)
             ELSE IF lines = <<>>
                  THEN Got(List(processes),
                           r.out.logged \o
                             <<LogEntry("WARNING", "No processes information available",
                                        <<>>)>>, <<r>>)
             ELSE Got(List(loop.processes), r.out.logged \o loop.logged, <<r>>)

\* PiSystemInfo.get_running_process_info
get_running_process_info(run, previous) ==
    LET r == Read("PiSystemInfo", ProcessesCommand, run) IN
    IF Raised(r.out) THEN ReaderRaised(r)
    ELSE IF IsNone(r.out.returned) THEN Got(None, r.out.logged, <<r>>)
    ELSE LET output == r.out.returned.str
             lines == IF output = <<>> THEN <<>> ELSE Tail(SplitLines(output))
             loop == ProcessLoop(lines, [processes |-> NewProcessList(previous),
                                         logged |-> <<>>])
         IN  IF lines = <<>>
             THEN Got(None,
                      r.out.logged \o
                        <<LogEntry("WARNING", "No processes information available",
                                   <<>>)>>, <<r>>)
             ELSE Got(List(loop.processes), r.out.logged \o loop.logged, <<r>>)

(***************************************************************************)
(* get_ram_info                                                            *)
(***************************************************************************)
\* A set of units that would let the upper-case letter through.
RamUnits_WithUpper == {"b", "k", "m", "g", "M"}

RamUnits == {"b", "k", "m", "g"}

\* ram_info before the command is run: five empty values and str(memory_size).
EmptyRamInfo(memory_size) ==
    [total |-> <<>>, used |-> <<>>, free |-> <<>>, cache |-> <<>>, available |-> <<>>,
     size |-> DecChars(memory_size)]

\* ram_info after the assignments of the try block, which stop at the first
\* fields[i] that is missing.
AssignedRamInfo(ram_info, columns) ==
    [ram_info EXCEPT
        !.total = IF Len(columns) >= 2 THEN columns[2] ELSE @,
        !.used = IF Len(columns) >= 3 THEN columns[3] ELSE @,
        !.free = IF Len(columns) >= 4 THEN columns[4] ELSE @,
        !.cache = IF Len(columns) >= 6 THEN columns[6] ELSE @,
        !.available = IF Len(columns) >= 7 THEN columns[7] ELSE @]

\* PiInfo.get_ram_info
PiInfo_get_ram_info(unit, run, memory_size) ==
    IF unit \notin RamUnits
    THEN Got(Dict(EmptyRamInfo(memory_size)),
             <<LogEntry("ERROR", "Requested unknown RAM volume unit", [unit |-> unit])>>, <<>>)
    ELSE LET r == Read("PiInfo", "free -" \o unit, run) IN
         IF Raised(r.out) THEN ReaderRaised(r)
         ELSE LET output == r.out.returned.str
                  lines == SplitLines(output)
                  columns == IF Len(lines) >= 2 THEN Split(lines[2]) ELSE <<>>
                  failure == <<LogEntry("ERROR", "Failed to parse 'free' command output",
                                        [output |-> output, error |-> "IndexError"])>>
              IN  IF output = <<>> THEN Got(Dict(EmptyRamInfo(memory_size)), r.out.logged, <<r>>)
                  ELSE IF Len(lines) < 2
                       THEN Got(Dict(EmptyRamInfo(memory_size)), r.out.logged \o failure, <<r>>)
                  ELSE IF Len(columns) < 7
                       THEN Got(Dict(AssignedRamInfo(EmptyRamInfo(memory_size), columns)),
                                r.out.logged \o failure, <<r>>)
                  ELSE Got(Dict(AssignedRamInfo(EmptyRamInfo(memory_size), columns)),
                           r.out.logged, <<r>>)

\* PiSystemInfo.get_ram_info
PiSystemInfo_get_ram_info(unit, run) ==
    IF unit \notin RamUnits
    THEN Got(None, <<LogEntry("ERROR", "Requested unknown ram volume unit", [unit |-> unit])>>,
             <<>>)
    ELSE LET r == Read("PiSystemInfo", "free -" \o unit, run) IN
         IF Raised(r.out) THEN ReaderRaised(r)
         ELSE IF IsNone(r.out.returned) THEN Got(None, r.out.logged, <<r>>)
         ELSE LET output == r.out.returned.str
                  lines == SplitLines(output)
                  columns == IF Len(lines) >= 2 THEN Split(lines[2]) ELSE <<>>
              IN  IF Len(columns) < 7
                  THEN Got(None,
                           r.out.logged \o
                             <<LogEntry("ERROR", "Failed to parse 'free' command output",
                                        [output |-> output, error |-> "IndexError"])>>, <<r>>)
                  ELSE Got(Dict([total |-> columns[2], used |-> columns[3], free |-> columns[4],
                                 cache |-> columns[6], available |-> columns[7]]),
                           r.out.logged, <<r>>)

(***************************************************************************)
(* The CPU frequency getters                                               *)
(***************************************************************************)
FrequencyTypes == <<"min", "max", "cur">>

\* One round of the loop over min, max and cur: the dict, the log and the
\* commands so far, and the exception that left the loop, if one did.
RECURSIVE FrequencyLoop(_, _, _, _)
FrequencyLoop(types, unit, runs, done) ==
    IF types = <<>> THEN done
    ELSE LET ft == Head(types)
             r == Read("PiInfo",
                       "cat /sys/devices/system/cpu/cpu0/cpufreq/scaling_" \o ft \o "_freq",
                       runs[ft])
             logged == done.logged \o r.out.logged
             reads == Append(done.reads, r)
         IN  IF Raised(r.out)
             THEN [done EXCEPT !.logged = logged, !.reads = reads, !.raised = r.out.raised]
             ELSE LET result == r.out.returned.str
                      parsed == FloatOf(result)
                      converted == IF Raised(parsed) THEN parsed
                                   ELSE convert_frequency(Times(parsed, 1000), unit)
                  IN  IF result = <<>>
                      THEN FrequencyLoop(Tail(types), unit, runs,
                                         [done EXCEPT !.logged = logged, !.reads = reads])
                      ELSE IF Raised(parsed)
                      THEN FrequencyLoop(Tail(types), unit, runs,
                               [done EXCEPT
                                  !.logged = logged \o
                                     <<LogEntry("ERROR",
                                                "Error while converting CPU frequency to float",
                                                [result |-> result])>>,
                                  !.reads = reads])
                      ELSE IF Raised(converted)
                      THEN FrequencyLoop(Tail(types), unit, runs,
                               [done EXCEPT
                                  !.logged = logged \o
                                     <<LogEntry("ERROR", "CPU frequency processing error",
                                                [error |-> converted])>>,
                                  !.reads = reads])
                      ELSE FrequencyLoop(Tail(types), unit, runs,
                               [done EXCEPT !.frequencies[ft] = converted,
                                            !.logged = logged, !.reads = reads])

\* PiInfo.get_cpu_core_frequencies
get_cpu_core_frequencies(unit, runs) ==
    LET loop == FrequencyLoop(FrequencyTypes, unit, runs,
                              [frequencies |-> [min |-> Float(0, 1), max |-> Float(0, 1),
                                                cur |-> Float(0, 1)],
                               logged |-> <<>>, reads |-> <<>>, raised |-> None])
    IN  IF IsNone(loop.raised) THEN Got(Dict(loop.frequencies), loop.logged, loop.reads)
        ELSE Threw(loop.raised, loop.logged, loop.reads)

\* PiSystemInfo.get_cpu_core_frequency
get_cpu_core_frequency(unit, run) ==
    LET r == Read("PiSystemInfo", "vcgencmd measure_clock arm | cut -d= -f2", run) IN
    IF Raised(r.out) THEN ReaderRaised(r)
    ELSE IF IsNone(r.out.returned) THEN Got(None, r.out.logged, <<r>>)
    ELSE LET frequency == IntOf(r.out.returned.str) IN
         IF Raised(frequency) THEN Threw(frequency, r.out.logged, <<r>>)
         ELSE CASE unit = "Hz" -> Got(frequency, r.out.logged, <<r>>)
                [] unit = "KHz" -> Got(FloorDiv(frequency, 1000), r.out.logged, <<r>>)
                [] unit = "MHz" -> Got(FloorDiv(frequency, 1000000), r.out.logged, <<r>>)
                [] unit = "GHz" -> Got(FloorDiv(frequency, 1000000000), r.out.logged, <<r>>)
                [] OTHER ->
                     Got(None,
                         r.out.logged \o
                           <<LogEntry("ERROR", "Requested unknown cpu frequency unit",
                                      [unit |-> unit])>>, <<r>>)

(***************************************************************************)
(* Fact getters of PiSystemInfo that take the reader's result as a str     *)
(***************************************************************************)
\* A method of str called on the None the reader returned.
AttributeErrorNone(method) == Exc("AttributeError", "None." \o method)
\* strptime called with None in place of the text.
TypeErrorStrptime == Exc("TypeError", "strptime")

\* PiSystemInfo.os_name (the body of the cached property)
PiSystemInfo_os_name(run) ==
    LET r == Read("PiSystemInfo", "cat /etc/*-release | grep PRETTY_NAME | cut -d= -f2", run) IN
    IF Raised(r.out) THEN ReaderRaised(r)
    ELSE IF IsNone(r.out.returned) THEN Threw(AttributeErrorNone("strip"), r.out.logged, <<r>>)
    ELSE Got(Str(StripChar(r.out.returned.str, "\"")), r.out.logged, <<r>>)

\* PiSystemInfo.get_bluetooth_mac_address: no try and no check of the result.
PiSystemInfo_get_bluetooth_mac_address(run) ==
    LET r == Read("PiSystemInfo", "hcitool dev", run) IN
    IF Raised(r.out) THEN ReaderRaised(r)
    ELSE IF IsNone(r.out.returned) THEN Threw(AttributeErrorNone("split"), r.out.logged, <<r>>)
    ELSE LET lines == SplitOnNewline(r.out.returned.str)
             words == IF Len(lines) >= 2 THEN Split(lines[2]) ELSE <<>>
         IN  IF Len(words) >= 2 THEN Got(Str(Upper(words[2])), r.out.logged, <<r>>)
             ELSE Threw(Exc("IndexError", "[1]"), r.out.logged, <<r>>)

\* PiSystemInfo.get_uptime_since
PiSystemInfo_get_uptime_since(run) ==
    LET r == Read("PiSystemInfo", "uptime -s", run) IN
    IF Raised(r.out) THEN ReaderRaised(r)
    ELSE IF IsNone(r.out.returned) THEN Threw(TypeErrorStrptime, r.out.logged, <<r>>)
    ELSE LET t == StrptimeIso(r.out.returned.str) IN
         IF Raised(t) THEN Threw(t, r.out.logged, <<r>>) ELSE Got(t, r.out.logged, <<r>>)

\* PiSystemInfo.get_cpu_core_voltage
PiSystemInfo_get_cpu_core_voltage(run) ==
    LET r == Read("PiSystemInfo", "vcgencmd measure_volts| cut -d= -f2", run) IN
    IF Raised(r.out) THEN ReaderRaised(r)
    ELSE IF IsNone(r.out.returned) THEN Got(None, r.out.logged, <<r>>)
    ELSE LET x == FloatOf(Slice(r.out.returned.str, 0, -1)) IN
         IF Raised(x) THEN Threw(x, r.out.logged, <<r>>) ELSE Got(x, r.out.logged, <<r>>)

\* PiSystemInfo.cpu_model_name (the body of the cached property): lscpu is
\* asked when /proc/cpuinfo gave nothing.
PiSystemInfo_cpu_model_name(runs) ==
    LET r1 == Read("PiSystemInfo", "cat /proc/cpuinfo | grep 'model name' | cut -d: -f2",
                   runs.cpuinfo)
        r2 == Read("PiSystemInfo", "lscpu | grep 'Model name' | cut -d: -f2", runs.lscpu)
    IN  IF Raised(r1.out) THEN ReaderRaised(r1)
        ELSE IF ~IsNone(r1.out.returned) /\ r1.out.returned.str # <<>>
             THEN Got(r1.out.returned, r1.out.logged, <<r1>>)
        ELSE IF Raised(r2.out) THEN Threw(r2.out.raised, r1.out.logged \o r2.out.logged, <<r1, r2>>)
        ELSE Got(r2.out.returned, r1.out.logged \o r2.out.logged, <<r1, r2>>)

(***************************************************************************)
(* The cached properties of PiInfo                                         *)
(***************************************************************************)
\* model_name, serial_number, cpu_architecture and hostname: the body returns
\* what the reader returned.
ReaderProperty(command, run) ==
    LET r == Read("PiInfo", command, run) IN
    IF Raised(r.out) THEN ReaderRaised(r) ELSE Got(r.out.returned, r.out.logged, <<r>>)

\* PiInfo.os_name (the body of the cached property)
PiInfo_os_name(run) ==
    LET r == Read("PiInfo", "cat /etc/*-release | grep PRETTY_NAME | cut -d= -f2", run) IN
    IF Raised(r.out) THEN ReaderRaised(r)
    ELSE Got(Str(StripChar(r.out.returned.str, "\"")), r.out.logged, <<r>>)

\* The name of a cache as text.
CacheChars(c) == CASE c = "L1d" -> <<"L", "1", "d">> [] c = "L1i" -> <<"L", "1", "i">> [] c = "L2" -> <<"L", "2">>

\* re.match(fr"{cache} cache:\s*(\S+)", line): group 1, or <<>> for no match.
CacheMatch(cache, line) ==
    LET prefix == cache \o <<" ", "c", "a", "c", "h", "e", ":">>
        words == IF StartsWith(line, prefix)
                 THEN Split(SubSeq(line, Len(prefix) + 1, Len(line))) ELSE <<>>
    IN  IF words = <<>> THEN <<>> ELSE words[1]

\* The loop over the lines: a later matching line overwrites an earlier one.
RECURSIVE CacheSizes(_, _)
CacheSizes(lines, cache_sizes) ==
    IF lines = <<>> THEN cache_sizes
    ELSE CacheSizes(Tail(lines),
                    [c \in DOMAIN cache_sizes |->
                        LET size == CacheMatch(CacheChars(c), Head(lines)) IN
                        IF size = <<>> THEN cache_sizes[c] ELSE size])

\* PiInfo.cpu_cache_sizes (the body of the cached property)
cpu_cache_sizes(run) ==
    LET r == Read("PiInfo", "lscpu", run) IN
    IF Raised(r.out) THEN ReaderRaised(r)
    ELSE Got(Dict(CacheSizes(SplitLines(r.out.returned.str),
                             [L1d |-> <<>>, L1i |-> <<>>, L2 |-> <<>>])),
             r.out.logged, <<r>>)

CachedFacts ==
    {"model_name", "serial_number", "cpu_architecture", "cpu_cores_count", "cpu_cache_sizes",
     "hostname", "os_name", "boot_time"}

\* The body of a cached property.
CachedBody(name, run) ==
    CASE name = "model_name" -> ReaderProperty("cat /sys/firmware/devicetree/base/model", run)
      [] name = "serial_number" ->
            ReaderProperty("cat /proc/cpuinfo | grep 'Serial' | cut -d: -f2", run)
      [] name = "cpu_architecture" ->
            ReaderProperty("lscpu | grep 'Architecture' | cut -d: -f2", run)
      [] name = "hostname" -> ReaderProperty("hostname", run)
      [] name = "cpu_cores_count" -> cpu_cores_count(run)
      [] name = "cpu_cache_sizes" -> cpu_cache_sizes(run)
      [] name = "os_name" -> PiInfo_os_name(run)
      [] name = "boot_time" -> boot_time(run)

(***************************************************************************)
(* SpecFacts: one fact request on an instance, on every outcome its        *)
(* commands can have                                                       *)
(***************************************************************************)
\* A command that failed in one of the two ways the reader catches.
FailedRuns ==
    { CalledProcessError(127, <<"s", "h", ":", " ", "1", ":", " ", "n", "o", "t", " ", "f", "o", "u", "n", "d", "\n">>),
      CalledProcessError(1, <<>>),
      FileNotFoundError }

UncaughtRuns == { OtherError(k) : k \in UncaughtKinds }

RunsPrinting(texts) == { Completed(t) : t \in texts } \cup FailedRuns \cup UncaughtRuns

Failed(run) == run.kind \in {"CalledProcessError", "FileNotFoundError"}

Request(getter, args, inputs, out) ==
    [getter |-> getter, args |-> args, inputs |-> inputs, out |-> out]

NoArgs == [none |-> TRUE]

\* A getter is called on an instance that served no fact yet.
Ask(getter, args, inputs, out) ==
    /\ fact = NoFact
    /\ fact' = Request(getter, args, inputs, out)
    /\ UNCHANGED <<snapshot, dvars, mvars>>

CoresTexts == { <<"4", "\n">>, <<" ", "4">>, <<>>, <<"f", "o", "u", "r">>, <<"4", ".", "0">> }
TemperatureTexts == { <<"5", "2", ".", "6", "\n">>, <<"4", "7">>, <<>>, <<"n", "/", "a">>, <<"5", "2", ".", "6", "'", "C">> }
VoltageTexts == { <<"0", ".", "8", "5", "0", "0", "V", "\n">>, <<"V">>, <<>>, <<"v", "o", "l", "t", "=", "0", ".", "8", "5", "V">>, <<"1", ".", "2">> }
ThrottledTexts == { <<"0", "x", "0", "\n">>, <<"0", "x", "5", "0", "0", "0", "5">>, <<"\"", "0", "x", "2", "\"">>, <<>>, <<"u", "n", "k", "n", "o", "w", "n">>, <<"0", "x", "8", "0", "0", "0", "f">> }
BootTexts == { <<"2", "0", "2", "4", "-", "0", "1", "-", "0", "5", " ", "1", "0", ":", "2", "0", ":", "3", "0", "\n">>, <<>>, <<"u", "p", " ", "2", " ", "d", "a", "y", "s">>, <<"2", "0", "2", "4", "-", "0", "2", "-", "3", "0", " ", "1", "0", ":", "2", "0", ":", "3", "0">> }
BluetoothTexts ==
    { <<"D", "e", "v", "i", "c", "e", "s", ":", "\n", "\t", "h", "c", "i", "0", "\t", "b", "8", ":", "2", "7", ":", "e", "b", ":", "a", "a", ":", "b", "b", ":", "c", "c", "\n">>, <<"D", "e", "v", "i", "c", "e", "s", ":", "\n">>, <<>>, <<"D", "e", "v", "i", "c", "e", "s", ":", "\n", "\t", "h", "c", "i", "0">>,
      <<"D", "e", "v", "i", "c", "e", "s", ":", "\n", "\n", "\t", "h", "c", "i", "0", "\t", "b", "8", ":", "2", "7", ":", "e", "b", ":", "a", "a", ":", "b", "b", ":", "c", "c">> }

AskCoresCount ==
    fact = NoFact /\ \E run \in RunsPrinting(CoresTexts) :
        Ask("cpu_cores_count", NoArgs, run, cpu_cores_count(run))

AskTemperature ==
    fact = NoFact /\ \E run \in RunsPrinting(TemperatureTexts) :
        Ask("get_cpu_temperature", NoArgs, run, get_cpu_temperature(run))

AskVoltage ==
    fact = NoFact /\ \E run \in RunsPrinting(VoltageTexts) :
        Ask("get_cpu_core_voltage", NoArgs, run, get_cpu_core_voltage(run))

AskThrottled ==
    fact = NoFact /\ \E run \in RunsPrinting(ThrottledTexts) :
        Ask("get_throttled_state", NoArgs, run, get_throttled_state(run))

AskBootTime ==
    fact = NoFact /\ \E run \in RunsPrinting(BootTexts) :
        Ask("boot_time", NoArgs, run, boot_time(run))

AskBluetooth ==
    fact = NoFact /\ \E run \in RunsPrinting(BluetoothTexts) :
        Ask("get_bluetooth_mac_address", NoArgs, run, get_bluetooth_mac_address(run))

Listings == { Listed({"eth0", "lo"}), ListdirError("FileNotFoundError"),
              ListdirError("PermissionError") }
Interfaces == { "eth0", "wlan0" }
MacRuns ==
    { Completed(<<"b", "8", ":", "2", "7", ":", "e", "b", ":", "a", "a", ":", "b", "b", ":", "c", "c", "\n">>), CalledProcessError(1, <<"N", "o", " ", "s", "u", "c", "h", " ", "f", "i", "l", "e", "\n">>),
      OtherError("PermissionError") }
LinkRuns ==
    { Completed(<<"2", ":", " ", "e", "t", "h", "0", ":", " ", "<", "B", "R", "O", "A", "D", "C", "A", "S", "T", ",", "M", "U", "L", "T", "I", "C", "A", "S", "T", ",", "U", "P", ",", "L", "O", "W", "E", "R", "_", "U", "P", ">", " ", "m", "t", "u", " ", "1", "5", "0", "0", " ", "s", "t", "a", "t", "e", " ", "U", "P", " ", "m", "o", "d", "e", " ", "D", "E", "F", "A", "U", "L", "T", "\n">>),
      Completed(<<"2", ":", " ", "e", "t", "h", "0", ":", " ", "<", "N", "O", "-", "C", "A", "R", "R", "I", "E", "R", ",", "B", "R", "O", "A", "D", "C", "A", "S", "T", ",", "M", "U", "L", "T", "I", "C", "A", "S", "T", ",", "U", "P", ">", " ", "m", "t", "u", " ", "1", "5", "0", "0", " ", "s", "t", "a", "t", "e", " ", "D", "O", "W", "N", "\n">>),
      CalledProcessError(1, <<"D", "e", "v", "i", "c", "e", " ", "d", "o", "e", "s", " ", "n", "o", "t", " ", "e", "x", "i", "s", "t", "\n">>),
      FileNotFoundError }
AddrRuns ==
    { Completed(<<"2", ":", " ", "e", "t", "h", "0", "\n", " ", " ", " ", " ", "i", "n", "e", "t", " ", "1", "9", "2", ".", "1", "6", "8", ".", "1", ".", "5", "/", "2", "4", " ", "b", "r", "d", " ", "1", "9", "2", ".", "1", "6", "8", ".", "1", ".", "2", "5", "5", " ", "s", "c", "o", "p", "e", " ", "g", "l", "o", "b", "a", "l", " ", "e", "t", "h", "0", "\n">>),
      Completed(<<" ", " ", " ", " ", "i", "n", "e", "t", " ", "1", "0", ".", "0", ".", "0", ".", "7", "/", "8", " ", "b", "r", "d", " ", "1", "0", ".", "2", "5", "5", ".", "2", "5", "5", ".", "2", "5", "5", " ", "s", "c", "o", "p", "e", " ", "g", "l", "o", "b", "a", "l", " ", "e", "t", "h", "0">>),
      Completed(<<" ", " ", " ", " ", "i", "n", "e", "t", " ", "1", "0", ".", "0", ".", "0", ".", "7", "/", "3", "3", " ", "b", "r", "d", " ", "1", "0", ".", "2", "5", "5", ".", "2", "5", "5", ".", "2", "5", "5">>),
      Completed(<<" ", " ", " ", " ", "i", "n", "e", "t", " ", "1", "0", ".", "0", ".", "0", ".", "7", "/", "8", " ", "s", "c", "o", "p", "e", " ", "g", "l", "o", "b", "a", "l", " ", "e", "t", "h", "0">>),
      Completed(<<>>),
      CalledProcessError(1, <<>>),
      OtherError("UnicodeDecodeError") }
RouteRuns ==
    { Completed(<<"d", "e", "f", "a", "u", "l", "t", " ", "v", "i", "a", " ", "1", "9", "2", ".", "1", "6", "8", ".", "1", ".", "1", " ", "d", "e", "v", " ", "e", "t", "h", "0", " ", "p", "r", "o", "t", "o", " ", "d", "h", "c", "p", "\n">>),
      Completed(<<>>),
      CalledProcessError(1, <<>>),
      OtherError("PermissionError") }

AskNetworkInterface ==
    fact = NoFact /\ \E interface \in Interfaces, listing \in Listings, mac \in MacRuns,
                       link \in LinkRuns, addr \in AddrRuns, route \in RouteRuns :
        LET runs == [mac |-> mac, link |-> link, addr |-> addr, route |-> route] IN
        Ask("get_network_interface_info", [interface |-> interface],
            [listing |-> listing, runs |-> runs],
            get_network_interface_info(interface, listing, runs))

\* The prefix lengths `ip -4 addr show` is made to print: every length of an
\* IPv4 network, and one past them.
PrefixLengths == 0..33

\* What `ip -o link show` prints for an interface that is up: both texts, the
\* flag alone, the state alone.
UpLinkRuns ==
    { Completed(<<"2", ":", " ", "e", "t", "h", "0", ":", " ", "<", "U", "P", ",", "L", "O", "W", "E", "R", "_", "U", "P", ">", " ", "m", "t", "u", " ", "1", "5", "0", "0", " ", "s", "t", "a", "t", "e", " ", "U", "P", "\n">>),
      Completed(<<"2", ":", " ", "e", "t", "h", "0", ":", " ", "<", "U", "P", ",", "L", "O", "W", "E", "R", "_", "U", "P", ">", " ", "m", "t", "u", " ", "1", "5", "0", "0", " ", "s", "t", "a", "t", "e", " ", "U", "N", "K", "N", "O", "W", "N", "\n">>),
      Completed(<<"2", ":", " ", "e", "t", "h", "0", ":", " ", "<", "U", "P", ">", " ", "m", "t", "u", " ", "1", "5", "0", "0", " ", "s", "t", "a", "t", "e", " ", "U", "P", "\n">>) }

\* An interface that is up, with an address of each prefix length.
AskNetworkPrefix ==
    fact = NoFact /\ \E prefix_len \in PrefixLengths, link \in UpLinkRuns, route \in RouteRuns :
        LET runs == [mac |-> Completed(<<"b", "8", ":", "2", "7", ":", "e", "b", ":", "a", "a", ":", "b", "b", ":", "c", "c", "\n">>),
                     link |-> link,
                     addr |-> Completed(<<" ", " ", " ", " ", "i", "n", "e", "t", " ", "1", "0", ".", "0", ".", "0", ".", "7", "/">> \o DecChars(prefix_len)
                                          \o <<" ", "b", "r", "d", " ", "1", "0", ".", "2", "5", "5", ".", "2", "5", "5", ".", "2", "5", "5", " ", "s", "c", "o", "p", "e", " ", "g", "l", "o", "b", "a", "l", " ", "e", "t", "h", "0", "\n">>),
                     route |-> route]
            listing == Listed({"eth0", "lo"})
        IN  Ask("get_network_interface_info", [interface |-> "eth0", prefix_len |-> prefix_len],
                [listing |-> listing, runs |-> runs],
                get_network_interface_info("eth0", listing, runs))

(***************************************************************************)
(* SpecFacts: the list getters, on outputs made of a header and rows       *)
(***************************************************************************)
MaxRows == 3

\* The sequences of at most MaxRows rows drawn from a pool.
RowsOf(pool) == UNION { [1..n -> pool] : n \in 0..MaxRows }

\* A row that is printed as the text it holds.
RawRow(text) == [kind |-> "raw", text |-> text]

\* The output of a tool that prints a header and one line per row.
RECURSIVE RenderLines(_)
RenderLines(texts) ==
    IF texts = <<>> THEN <<>> ELSE Head(texts) \o <<"\n">> \o RenderLines(Tail(texts))

\* ---- nmcli dev wifi list ----
WifiHeader == <<"I", "N", "-", "U", "S", "E", " ", " ", "B", "S", "S", "I", "D", " ", " ", "S", "S", "I", "D", " ", " ", "M", "O", "D", "E", " ", " ", "C", "H", "A", "N", " ", " ", "R", "A", "T", "E", " ", " ", "S", "I", "G", "N", "A", "L", " ", " ", "B", "A", "R", "S", " ", " ", "S", "E", "C", "U", "R", "I", "T", "Y">>

WifiRow(inuse, bssid, ssid, mode, channel, rate, signal, bars, security) ==
    [kind |-> "network", inuse |-> inuse, bssid |-> bssid, ssid |-> ssid, mode |-> mode,
     channel |-> channel, rate |-> rate, signal |-> signal, bars |-> bars,
     security |-> security]

RenderWifiRow(row) ==
    IF row.kind = "raw" THEN row.text
    ELSE (IF row.inuse THEN <<"*", " ", " ", " ", " ", " ", " ", " ">> ELSE <<" ", " ", " ", " ", " ", " ", " ", " ">>) \o
         Join(<<" ", " ">>, <<row.bssid, Join(<<" ">>, row.ssid), row.mode, row.channel,
                       row.rate \o <<" ", "M", "b", "i", "t", "/", "s">>, row.signal, row.bars,
                       Join(<<" ">>, row.security)>>)

WifiRows ==
    { WifiRow(FALSE, <<"A", "0", ":", "0", "1">>, <<<<"H", "o", "m", "e">>>>, <<"I", "n", "f", "r", "a">>, <<"6">>, <<"1", "3", "0">>, <<"8", "0">>, <<"*", "*", "*">>,
              <<<<"W", "P", "A", "2">>>>),
      WifiRow(TRUE, <<"A", "0", ":", "0", "2">>, <<<<"M", "y">>, <<"H", "o", "m", "e">>, <<"N", "e", "t">>>>, <<"I", "n", "f", "r", "a">>, <<"1", "1">>, <<"2", "7", "0">>, <<"6", "5">>,
              <<"*", "*">>, <<<<"W", "P", "A", "1">>, <<"W", "P", "A", "2">>>>),
      RawRow(<<" ", " ", " ", " ", " ", " ", " ", " ", "A", "0", ":", "0", "3", " ", " ", "C", "a", "f", "e", " ", " ", "I", "n", "f", "r", "a", " ", " ", "1", " ", " ", "5", "4", " ", "M", "B", "/", "s", " ", " ", "4", "0", " ", " ", "*", " ", " ", "-", "-">>),
      RawRow(<<" ", " ", " ", " ", " ", " ", " ", " ", "A", "0", ":", "0", "4", " ", " ", "L", "a", "b", " ", " ", "I", "n", "f", "r", "a", " ", " ", "1", " ", " ", "5", "4", " ", "M", "b", "i", "t", "/", "s">>) }

WifiOutput(rows) ==
    RenderLines(<<WifiHeader>> \o [i \in 1..Len(rows) |-> RenderWifiRow(rows[i])])

\* What a list getter is asked on: the rows the tool printed, or a command
\* that printed nothing or did not complete.
Printed(rows) == [printed |-> TRUE, rows |-> rows]
NotPrinted == [printed |-> FALSE, rows |-> <<>>]
SilentRuns == {Completed(<<>>)} \cup FailedRuns \cup UncaughtRuns

AskWifiPiInfo ==
    /\ fact = NoFact
    /\ \/ \E rows \in RowsOf(WifiRows) :
             LET run == Completed(WifiOutput(rows)) IN
             Ask("PiInfo.get_available_wifi_networks", Printed(rows), run,
                 PiInfo_get_available_wifi_networks(run))
       \/ \E run \in SilentRuns :
             Ask("PiInfo.get_available_wifi_networks", NotPrinted, run,
                 PiInfo_get_available_wifi_networks(run))

AskWifiPiSystemInfo ==
    /\ fact = NoFact
    /\ \/ \E rows \in RowsOf(WifiRows) :
             LET run == Completed(WifiOutput(rows)) IN
             Ask("PiSystemInfo.get_available_wifi_networks", Printed(rows), run,
                 PiSystemInfo_get_available_wifi_networks(run))
       \/ \E run \in SilentRuns :
             Ask("PiSystemInfo.get_available_wifi_networks", NotPrinted, run,
                 PiSystemInfo_get_available_wifi_networks(run))


\* ---- df -h ----
DiskHeader == <<"F", "i", "l", "e", "s", "y", "s", "t", "e", "m", " ", " ", " ", " ", " ", " ", "S", "i", "z", "e", " ", " ", "U", "s", "e", "d", " ", "A", "v", "a", "i", "l", " ", "U", "s", "e", "%", " ", "M", "o", "u", "n", "t", "e", "d", " ", "o", "n">>

\* A df row: use holds the digits of the percentage, mounted_on the words of
\* the mount point.
DiskRow(filesystem, size, used, available, use, mounted_on) ==
    [kind |-> "disk", filesystem |-> filesystem, size |-> size, used |-> used,
     available |-> available, use |-> use, mounted_on |-> mounted_on]

RenderDiskRow(row) ==
    IF row.kind = "raw" THEN row.text
    ELSE Join(<<" ", " ">>, <<row.filesystem, row.size, row.used, row.available,
                       row.use \o <<"%">>, Join(<<" ">>, row.mounted_on)>>)

DiskRows ==
    { DiskRow(<<"/", "d", "e", "v", "/", "r", "o", "o", "t">>, <<"2", "9", "G">>, <<"5", ".", "1", "G">>, <<"2", "3", "G">>, <<"1", "9">>, <<<<"/">>>>),
      DiskRow(<<"/", "d", "e", "v", "/", "s", "d", "a", "1">>, <<"1", "0", "0", "G">>, <<"5", "0", "G">>, <<"5", "0", "G">>, <<"5", "0">>, <<<<"/", "m", "n", "t", "/", "m", "y">>, <<"d", "i", "s", "k">>>>),
      RawRow(<<"t", "m", "p", "f", "s", " ", " ", "1", ".", "9", "G", " ", " ", "0", " ", " ", "1", ".", "9", "G">>),
      RawRow(<<"t", "m", "p", "f", "s", " ", "1", ".", "9", "G", " ", "0", " ", "1", ".", "9", "G", " ", "0", "%">>) }

DiskOutput(rows) ==
    RenderLines(<<DiskHeader>> \o [i \in 1..Len(rows) |-> RenderDiskRow(rows[i])])

AskDisksPiInfo ==
    /\ fact = NoFact
    /\ \/ \E rows \in RowsOf(DiskRows) :
             LET run == Completed(DiskOutput(rows)) IN
             Ask("get_disks_info", Printed(rows), run, get_disks_info(run))
       \/ \E run \in SilentRuns : Ask("get_disks_info", NotPrinted, run, get_disks_info(run))

AskDisksPiSystemInfo ==
    /\ fact = NoFact
    /\ \/ \E rows \in RowsOf(DiskRows) :
             LET run == Completed(DiskOutput(rows)) IN
             Ask("get_disk_usage_info", Printed(rows), run, get_disk_usage_info(run))
       \/ \E run \in SilentRuns :
             Ask("get_disk_usage_info", NotPrinted, run, get_disk_usage_info(run))

\* ---- ps -eo user,pid,pcpu,pmem,comm,lstart ----
MaxProcessCalls == 2

ProcessHeader == <<"U", "S", "E", "R", " ", " ", "P", "I", "D", " ", "%", "C", "P", "U", " ", "%", "M", "E", "M", " ", "C", "O", "M", "M", "A", "N", "D", " ", " ", "S", "T", "A", "R", "T", "E", "D">>

\* A ps row: cpu and mem hold the printed number and its value, started the
\* five words of lstart and the moment they name.
ProcessRow(user, pid, cpu, mem, command, started) ==
    [kind |-> "process", user |-> user, pid |-> pid, cpu |-> cpu, mem |-> mem,
     command |-> command, started |-> started]

Measured(text, value) == [text |-> text, value |-> value]

RenderProcessRow(row) ==
    IF row.kind = "raw" THEN row.text
    ELSE Join(<<" ", " ">>, <<row.user, row.pid, row.cpu.text, row.mem.text,
                       Join(<<" ">>, row.command), Join(<<" ">>, row.started.text)>>)

ProcessRows ==
    { ProcessRow(<<"p", "i">>, <<"8", "1", "2">>, Measured(<<"1", "2", ".", "5">>, Float(25, 2)), Measured(<<"3", ".", "0">>, Float(3, 1)),
                 <<<<"p", "y", "t", "h", "o", "n", "3">>>>,
                 Measured(<<<<"T", "u", "e">>, <<"F", "e", "b">>, <<"1", "3">>, <<"0", "9", ":", "0", "8", ":", "0", "7">>, <<"2", "0", "2", "4">>>>,
                          [datetime |-> <<2024, 2, 13, 9, 8, 7>>])),
      ProcessRow(<<"r", "o", "o", "t">>, <<"1">>, Measured(<<"0", ".", "3">>, Float(3, 10)), Measured(<<"0", ".", "1">>, Float(1, 10)),
                 <<<<"W", "e", "b">>, <<"C", "o", "n", "t", "e", "n", "t">>>>,
                 Measured(<<<<"M", "o", "n">>, <<"J", "a", "n">>, <<"1">>, <<"1", "0", ":", "0", "0", ":", "0", "0">>, <<"2", "0", "2", "4">>>>,
                          [datetime |-> <<2024, 1, 1, 10, 0, 0>>])),
      RawRow(<<"p", "i", " ", " ", "9", "9", " ", " ", "n", "/", "a", " ", " ", "1", ".", "0", " ", " ", "s", "h", " ", " ", "M", "o", "n", " ", "J", "a", "n", " ", " ", "1", " ", "1", "0", ":", "0", "0", ":", "0", "0", " ", "2", "0", "2", "4">>),
      RawRow(<<"p", "i", " ", " ", "9", "9">>) }

ProcessOutput(rows) ==
    RenderLines(<<ProcessHeader>> \o [i \in 1..Len(rows) |-> RenderProcessRow(rows[i])])

\* The list the previous call on the instance returned, if there was one.
PreviousList ==
    IF snapshot # <<>> /\ "returned" \in DOMAIN snapshot[Len(snapshot)]
         /\ "list" \in DOMAIN snapshot[Len(snapshot)].returned
    THEN snapshot[Len(snapshot)].returned.list
    ELSE <<>>

\* The process getter is called, for the first time or again, on an instance
\* that served no other fact.
AskAgain(getter, args, inputs, out) ==
    /\ fact = NoFact \/ fact.getter = getter
    /\ Len(snapshot) < MaxProcessCalls
    /\ fact' = Request(getter, args, inputs, out)
    /\ snapshot' = Append(snapshot, out)
    /\ UNCHANGED <<dvars, mvars>>

AskProcessesPiInfo ==
    /\ fact = NoFact \/ fact.getter = "get_processes_info"
    /\ Len(snapshot) < MaxProcessCalls
    /\ \/ \E rows \in RowsOf(ProcessRows) :
             LET run == Completed(ProcessOutput(rows)) IN
             AskAgain("get_processes_info", Printed(rows), run,
                      get_processes_info(run, PreviousList))
       \/ \E run \in SilentRuns :
             AskAgain("get_processes_info", NotPrinted, run,
                      get_processes_info(run, PreviousList))

AskProcessesPiSystemInfo ==
    /\ fact = NoFact \/ fact.getter = "get_running_process_info"
    /\ Len(snapshot) < MaxProcessCalls
    /\ \/ \E rows \in RowsOf(ProcessRows) :
             LET run == Completed(ProcessOutput(rows)) IN
             AskAgain("get_running_process_info", Printed(rows), run,
                      get_running_process_info(run, PreviousList))
       \/ \E run \in SilentRuns :
             AskAgain("get_running_process_info", NotPrinted, run,
                      get_running_process_info(run, PreviousList))


\* ---- free ----
FreeHeader == <<" ", " ", " ", " ", " ", " ", " ", "t", "o", "t", "a", "l", " ", " ", "u", "s", "e", "d", " ", " ", "f", "r", "e", "e", " ", " ", "s", "h", "a", "r", "e", "d", " ", " ", "b", "u", "f", "f", "/", "c", "a", "c", "h", "e", " ", " ", "a", "v", "a", "i", "l", "a", "b", "l", "e">>

\* The columns of the Mem: line of a complete block, the label first.
MemColumns == <<<<"M", "e", "m", ":">>, <<"7", "8", "1", "2">>, <<"1", "2", "0", "3">>, <<"4", "2", "1", "0">>, <<"4", "5">>, <<"2", "3", "9", "8">>, <<"6", "3", "2", "0">>>>

\* The blocks free can be cut down to: the header alone (no column), or the
\* header, the first n columns of the Mem: line and, for a whole line, the
\* Swap: line as well.
FreeBlocks ==
    { [columns |-> SubSeq(MemColumns, 1, n), swap |-> swap] :
        n \in 0..Len(MemColumns), swap \in BOOLEAN }

FreeOutput(block) ==
    RenderLines(<<FreeHeader>>
                \o (IF block.columns = <<>> THEN <<>> ELSE <<Join(<<" ", " ">>, block.columns)>>)
                \o (IF block.swap /\ block.columns # <<>>
                    THEN <<<<"S", "w", "a", "p", ":", " ", " ", "9", "9", " ", " ", "0", " ", " ", "9", "9">>>> ELSE <<>>))

RequestedRamUnits == {"m", "g", "M", "kb"}
MemorySizes == {512, 4096}

OnBlock(unit, block) == [unit |-> unit, printed |-> TRUE, columns |-> block.columns]
OnNothing(unit) == [unit |-> unit, printed |-> FALSE, columns |-> <<>>]

AskRamPiInfo ==
    /\ fact = NoFact
    /\ \E unit \in RequestedRamUnits, memory_size \in MemorySizes :
          \/ \E block \in FreeBlocks :
                LET run == Completed(FreeOutput(block)) IN
                Ask("PiInfo.get_ram_info", OnBlock(unit, block), run,
                    PiInfo_get_ram_info(unit, run, memory_size))
          \/ \E run \in SilentRuns :
                Ask("PiInfo.get_ram_info", OnNothing(unit), run,
                    PiInfo_get_ram_info(unit, run, memory_size))

AskRamPiSystemInfo ==
    /\ fact = NoFact
    /\ \E unit \in RequestedRamUnits :
          \/ \E block \in FreeBlocks :
                LET run == Completed(FreeOutput(block)) IN
                Ask("PiSystemInfo.get_ram_info", OnBlock(unit, block), run,
                    PiSystemInfo_get_ram_info(unit, run))
          \/ \E run \in SilentRuns :
                Ask("PiSystemInfo.get_ram_info", OnNothing(unit), run,
                    PiSystemInfo_get_ram_info(unit, run))

(***************************************************************************)
(* SpecFacts: the scalar getters of PiSystemInfo                           *)
(***************************************************************************)
OsNameTexts == { <<"\"", "R", "a", "s", "p", "b", "i", "a", "n", " ", "G", "N", "U", "/", "L", "i", "n", "u", "x", " ", "1", "1", " ", "(", "b", "u", "l", "l", "s", "e", "y", "e", ")", "\"", "\n">>, <<"D", "e", "b", "i", "a", "n">>, <<>>, <<"\"", "\"">> }
ModelNameTexts == { <<"A", "R", "M", "v", "7", " ", "P", "r", "o", "c", "e", "s", "s", "o", "r", " ", "r", "e", "v", " ", "4", " ", "(", "v", "7", "l", ")", "\n">>, <<>> }
LscpuTexts == { <<"C", "o", "r", "t", "e", "x", "-", "A", "7", "2", "\n">>, <<>> }

AskOsNamePiSystemInfo ==
    fact = NoFact /\ \E run \in RunsPrinting(OsNameTexts) :
        Ask("PiSystemInfo.os_name", NoArgs, run, PiSystemInfo_os_name(run))

AskBluetoothPiSystemInfo ==
    fact = NoFact /\ \E run \in RunsPrinting(BluetoothTexts) :
        Ask("PiSystemInfo.get_bluetooth_mac_address", NoArgs, run,
            PiSystemInfo_get_bluetooth_mac_address(run))

AskUptimeSincePiSystemInfo ==
    fact = NoFact /\ \E run \in RunsPrinting(BootTexts) :
        Ask("PiSystemInfo.get_uptime_since", NoArgs, run, PiSystemInfo_get_uptime_since(run))

AskVoltagePiSystemInfo ==
    fact = NoFact /\ \E run \in RunsPrinting(VoltageTexts) :
        Ask("PiSystemInfo.get_cpu_core_voltage", NoArgs, run,
            PiSystemInfo_get_cpu_core_voltage(run))

AskModelNamePiSystemInfo ==
    fact = NoFact /\ \E cpuinfo \in RunsPrinting(ModelNameTexts), lscpu \in RunsPrinting(LscpuTexts) :
        LET runs == [cpuinfo |-> cpuinfo, lscpu |-> lscpu] IN
        Ask("PiSystemInfo.cpu_model_name", NoArgs, runs, PiSystemInfo_cpu_model_name(runs))


\* ---- convert_frequency and the frequency getters ----
RequestedFrequencyUnits == FrequencyUnits \cup {"THz", "mhz"}

\* Frequencies in Hz, as ints and as floats.
FrequenciesHz ==
    { IntVal(1000000000), IntVal(1500000), IntVal(600000000), IntVal(0),
      Float(1000000000, 1), Float(1500000, 1), Float(600000000, 1), Float(0, 1),
      Float(5, 2) }

Outcome(value) == IF Raised(value) THEN Threw(value, <<>>, <<>>) ELSE Got(value, <<>>, <<>>)

AskConvertFrequency ==
    /\ fact = NoFact
    /\ \E frequency \in FrequenciesHz, unit \in RequestedFrequencyUnits :
          Ask("convert_frequency", [frequency |-> frequency, unit |-> unit], NoArgs,
              Outcome(convert_frequency(frequency, unit)))

\* What scaling_*_freq prints (KHz), and the ways the command ends otherwise.
ScalingRuns ==
    { Completed(<<"6", "0", "0", "0", "0", "0", "\n">>), Completed(<<"1", "5", "0", "0", "0", "0", "0", "\n">>), Completed(<<"n", "/", "a">>), Completed(<<>>),
      CalledProcessError(1, <<"N", "o", " ", "s", "u", "c", "h", " ", "f", "i", "l", "e", " ", "o", "r", " ", "d", "i", "r", "e", "c", "t", "o", "r", "y", "\n">>), OtherError("PermissionError") }

AskFrequenciesPiInfo ==
    /\ fact = NoFact
    /\ \E unit \in RequestedFrequencyUnits, min \in ScalingRuns, max \in ScalingRuns,
          cur \in ScalingRuns :
          LET runs == [min |-> min, max |-> max, cur |-> cur] IN
          Ask("get_cpu_core_frequencies", [unit |-> unit], runs,
              get_cpu_core_frequencies(unit, runs))

\* What vcgencmd measure_clock arm prints after the '=' (Hz).
ClockRuns ==
    { Completed(<<"6", "0", "0", "0", "0", "0", "0", "0", "0", "\n">>), Completed(<<"1", "5", "0", "0", "0", "0", "0", "0", "0", "0">>), Completed(<<"9", "9", "9">>),
      Completed(<<>>), Completed(<<"1", ".", "5", "e", "9">>),
      CalledProcessError(1, <<>>), FileNotFoundError, OtherError("PermissionError") }

AskFrequencyPiSystemInfo ==
    /\ fact = NoFact
    /\ \E unit \in RequestedFrequencyUnits, run \in ClockRuns :
          Ask("get_cpu_core_frequency", [unit |-> unit], run,
              get_cpu_core_frequency(unit, run))

FactsNext ==
    \/ AskCoresCount
    \/ AskTemperature
    \/ AskVoltage
    \/ AskThrottled
    \/ AskBootTime
    \/ AskBluetooth
    \/ AskNetworkInterface
    \/ AskWifiPiInfo
    \/ AskWifiPiSystemInfo
    \/ AskDisksPiInfo
    \/ AskDisksPiSystemInfo
    \/ AskProcessesPiInfo
    \/ AskProcessesPiSystemInfo
    \/ AskRamPiInfo
    \/ AskRamPiSystemInfo
    \/ AskConvertFrequency
    \/ AskFrequenciesPiInfo
    \/ AskFrequencyPiSystemInfo

SpecFacts == Init /\ [][FactsNext]_vars

(***************************************************************************)
(* SpecCalls: the three Singleton-managed classes called one call after    *)
(* another with constructor arguments                                      *)
(***************************************************************************)
MaxSingletonCalls == 3

SingletonClasses == {"PiInfo", "PiSystemInfo", "LoggerSingleton"}

\* The loggers a client passes to PiInfo(logger) and PiSystemInfo(logger).
ClientLoggers == {"logger_a", "logger_b"}

\* LoggerSingleton(log_dir, log_file, level, ..., colored): "" stands for the
\* None default of log_dir and log_file.
LoggerArgs ==
    [log_dir : {"", "logs"}, log_file : {"", "pi.log"}, level : {"INFO", "DEBUG"},
     colored : BOOLEAN]

\* Path(log_dir).exists(), Path(log_dir).mkdir() and the opening of the log file.
DiskOutcomes == {"exists", "created", "mkdir fails", "open fails"}

\* The revision command at the construction of PiInfo.
ConstructionRuns ==
    { Completed(<<" ", "a", "0", "3", "1", "1", "1", "\n">>), Completed(<<>>),
      OtherError("PermissionError") }

\* logging.getLogger('SuperLogger'): the logger of that name, made on first use.
IsSuperLogger(object) == object.cls = "Logger" /\ object.name = "SuperLogger"

GetLogger(objects) ==
    IF \E i \in 1..Len(objects) : IsSuperLogger(objects[i]) THEN objects
    ELSE Append(objects, [cls |-> "Logger", name |-> "SuperLogger", level |-> "NOTSET",
                          handlers |-> <<>>])

SuperLoggerAt(objects) == CHOOSE i \in 1..Len(objects) : IsSuperLogger(objects[i])

StreamHandler(args) ==
    [kind |-> "StreamHandler", level |-> args.level,
     formatter |-> IF args.colored THEN "CustomColoredFormatter" ELSE "Formatter"]

RotatingFileHandler(args) ==
    [kind |-> "RotatingFileHandler", level |-> args.level, formatter |-> "Formatter",
     path |-> <<args.log_dir, args.log_file>>]

\* LoggerSingleton.__init__ on the objects that exist: the logger is set up
\* before the directory is made, so a failure leaves it with the new stream handler.
LoggerSingleton_init(args, disk, objects) ==
    LET got == GetLogger(objects)
        i == SuperLoggerAt(got)
        streamed == [got EXCEPT ![i].level = args.level, ![i].handlers = <<StreamHandler(args)>>]
        filed == [streamed EXCEPT ![i].handlers = Append(@, RotatingFileHandler(args))]
    IN  IF args.log_dir # "" /\ disk = "mkdir fails"
        THEN [heap |-> streamed, raised |-> Exc("SystemExit", "exit"), logged |-> <<>>]
        ELSE IF args.log_dir # "" /\ args.log_file # ""
        THEN (IF disk = "open fails"
              THEN [heap |-> streamed, raised |-> Exc("PermissionError", "open"),
                    logged |-> <<>>]
              ELSE [heap |-> filed, object |-> [cls |-> "LoggerSingleton"], logged |-> <<>>])
        ELSE [heap |-> streamed, object |-> [cls |-> "LoggerSingleton"], logged |-> <<>>]

\* cls.__init__(*args, **kwargs) on the objects that exist: the object it
\* fills, or the exception it raises.
Initialized(cls, args, input, objects) ==
    CASE cls = "PiInfo" ->
            LET made == post_init(input) IN
            IF Raised(made) THEN [heap |-> objects, raised |-> made.raised, logged |-> made.logged]
            ELSE [heap |-> objects,
                  object |-> [cls |-> cls, logger |-> args.logger, identity |-> made.returned],
                  logged |-> made.logged]
      [] cls = "PiSystemInfo" ->
            [heap |-> objects, object |-> [cls |-> cls, logger |-> args.logger],
             logged |-> <<>>]
      [] cls = "LoggerSingleton" -> LoggerSingleton_init(args, input, objects)

CallsMade == IF fact = NoFact THEN 0 ELSE fact.args.n

\* Singleton.__call__(cls, *args, **kwargs), from `with cls._lock` to `return
\* instance`, with no other thread calling.
SingletonCall(cls, args, input) ==
    LET id == instances[cls]
        made == Initialized(cls, args, input, heap)
        runs == id = 0 \/ AllowsReinitialization(cls)
        out == IF ~runs THEN [returned |-> id, initialized |-> FALSE]
               ELSE IF Raised(made) THEN [raised |-> made.raised, initialized |-> TRUE]
               ELSE [returned |-> IF id = 0 THEN Len(made.heap) + 1 ELSE id,
                     initialized |-> TRUE]
    IN  /\ CallsMade < MaxSingletonCalls
        /\ heap' = IF ~runs THEN heap
                   ELSE IF Raised(made) THEN made.heap
                   ELSE IF id = 0 THEN Append(made.heap, made.object)
                   ELSE [made.heap EXCEPT ![id] = made.object]
        /\ instances' = IF id = 0 /\ ~Raised(made)
                        THEN [instances EXCEPT ![cls] = Len(made.heap) + 1]
                        ELSE instances
        /\ log' = IF runs THEN log \o made.logged ELSE log
        /\ fact' = Request("Singleton.__call__",
                           [cls |-> cls, args |-> args, n |-> CallsMade + 1], input, out)
        /\ snapshot' = <<[instances |-> instances, heap |-> heap]>>
        /\ UNCHANGED <<dvars, lock, pc, th, ret, lastread>>

CallPiInfo ==
    \E logger \in ClientLoggers, run \in ConstructionRuns :
        SingletonCall("PiInfo", [logger |-> logger], run)

CallPiSystemInfo ==
    \E logger \in ClientLoggers : SingletonCall("PiSystemInfo", [logger |-> logger], NoRun)

CallLoggerSingleton ==
    \E args \in LoggerArgs, disk \in DiskOutcomes : SingletonCall("LoggerSingleton", args, disk)

CallsInit ==
    /\ DecodeIdle /\ FactIdle
    /\ instances = [c \in SingletonClasses |-> 0]
    /\ lock = 0
    /\ heap = <<>>
    /\ pc = [t \in Threads |-> "idle"]
    /\ th = [t \in Threads |-> NoCall]
    /\ ret = [t \in Threads |-> NoReturn]
    /\ log = <<>>
    /\ lastread = NoRead

CallsNext ==
    \/ CallPiInfo
    \/ CallPiSystemInfo
    \/ CallLoggerSingleton

SpecCalls == CallsInit /\ [][CallsNext]_vars

(***************************************************************************)
(* SpecRequests: one fact request per behaviour, on the getters that run   *)
(* one command and on those that run several                               *)
(***************************************************************************)
RequestsNext ==
    \/ AskCoresCount
    \/ AskTemperature
    \/ AskVoltage
    \/ AskThrottled
    \/ AskBootTime
    \/ AskBluetooth
    \/ AskOsNamePiSystemInfo
    \/ AskBluetoothPiSystemInfo
    \/ AskUptimeSincePiSystemInfo
    \/ AskVoltagePiSystemInfo
    \/ AskModelNamePiSystemInfo
    \/ AskRamPiInfo
    \/ AskRamPiSystemInfo
    \/ AskFrequenciesPiInfo
    \/ AskNetworkInterface
    \/ AskNetworkPrefix

SpecRequests == Init /\ [][RequestsNext]_vars

(***************************************************************************)
(* SpecCached: the cached properties of one PiInfo instance, read one      *)
(* after another                                                           *)
(***************************************************************************)
MaxCachedReads == 3

\* What the command of a cached property can do at a read.
PropertyRuns(name) ==
    CASE name = "cpu_cores_count" -> RunsPrinting({ <<"4", "\n">>, <<"f", "o", "u", "r">> })
      [] name = "cpu_cache_sizes" ->
            RunsPrinting({ <<"L", "1", "d", " ", "c", "a", "c", "h", "e", ":", " ", " ", " ", "1", "2", "8", " ", "K", "i", "B", "\n", "L", "1", "i", " ", "c", "a", "c", "h", "e", ":", " ", "1", "9", "2", " ", "K", "i", "B", "\n", "L", "2", " ", "c", "a", "c", "h", "e", ":", " ", "1", " ", "M", "i", "B", "\n">>,
                           <<"L", "2", " ", "c", "a", "c", "h", "e", ":", " ", "5", "1", "2", "K">> })
      [] name = "os_name" -> RunsPrinting({ <<"\"", "R", "a", "s", "p", "b", "i", "a", "n", " ", "G", "N", "U", "/", "L", "i", "n", "u", "x", " ", "1", "1", "\"", "\n">>, <<"D", "e", "b", "i", "a", "n">> })
      [] name = "boot_time" ->
            RunsPrinting({ <<"2", "0", "2", "4", "-", "0", "1", "-", "0", "5", " ", "1", "0", ":", "2", "0", ":", "3", "0", "\n">>, <<"2", "0", "2", "4", "-", "0", "1", "-", "0", "6", " ", "0", "8", ":", "0", "0", ":", "0", "0", "\n">>, <<"u", "p", " ", "2", " ", "d", "a", "y", "s">> })
      [] OTHER -> RunsPrinting({ <<"p", "i", "\n">>, <<"r", "a", "s", "p", "b", "e", "r", "r", "y", "p", "i", "\n">> })

\* functools.cached_property.__get__ on the instance: the value in the
\* instance's __dict__ if there is one, else the body, whose return value is
\* stored; a body that raises stores nothing.
ReadCached(name, run) ==
    LET cache == heap[1].cache
        hit == name \in DOMAIN cache
        out == IF hit THEN Got(cache[name], <<>>, <<>>) ELSE CachedBody(name, run)
    IN  /\ Len(snapshot) < MaxCachedReads
        /\ heap' = IF ~hit /\ "returned" \in DOMAIN out
                   THEN [heap EXCEPT ![1].cache = (name :> out.returned) @@ cache]
                   ELSE heap
        /\ log' = log \o out.logged
        /\ fact' = Request(name, [n |-> Len(snapshot) + 1], run, out)
        /\ snapshot' = Append(snapshot, [name |-> name, out |-> out])
        /\ UNCHANGED <<dvars, instances, lock, pc, th, ret, lastread>>

\* A PiInfo instance exists and no property was read yet.
CachedInit ==
    /\ DecodeIdle /\ FactIdle
    /\ instances = [c \in Classes |-> IF c = "PiInfo" THEN 1 ELSE 0]
    /\ lock = 0
    /\ heap = <<[cls |-> "PiInfo", cache |-> <<>>]>>
    /\ pc = [t \in Threads |-> "idle"]
    /\ th = [t \in Threads |-> NoCall]
    /\ ret = [t \in Threads |-> NoReturn]
    /\ log = <<>>
    /\ lastread = NoRead

CachedNext == \E name \in CachedFacts : \E run \in PropertyRuns(name) : ReadCached(name, run)

SpecCached == CachedInit /\ [][CachedNext]_vars

(***************************************************************************)
(* Claims on the fact getters                                              *)
(***************************************************************************)
\* ---- C11 ----
ConvertingGetters ==
    {"get_cpu_temperature", "get_cpu_core_voltage", "get_throttled_state", "cpu_cores_count"}

UnavailableDefault(getter) == IF getter = "cpu_cores_count" THEN IntVal(0) ELSE None

ErrorCount(entries) == Cardinality({i \in 1..Len(entries) : entries[i].level = "ERROR"})

\* C11: when the command of a converting PiInfo getter failed, the getter
\* returns its unavailable default and the only log entry is the reader's; when
\* a command of get_network_interface_info failed, the only log entries are
\* the readers' and no field (mac, state) is set from that command's result.
C11_FailedCommandIsNotParsed ==
    /\ (fact.getter \in ConvertingGetters /\ Failed(fact.inputs)) =>
          /\ "returned" \in DOMAIN fact.out
          /\ fact.out.returned = UnavailableDefault(fact.getter)
          /\ Len(fact.out.logged) = 1
    /\ (fact.getter = "get_network_interface_info" /\ "returned" \in DOMAIN fact.out
          /\ Len(fact.out.reads) >= 2 /\ Failed(fact.inputs.runs.link)) =>
          /\ fact.out.returned.dict.state = <<>>
          /\ Len(fact.out.logged) = ErrorCount(fact.out.logged)


\* ---- C12 ----
WifiGetters == {"PiInfo.get_available_wifi_networks", "PiSystemInfo.get_available_wifi_networks"}

IsNetwork(row) == row.kind = "network"
WellFormed(rows) == SelectSeq(rows, IsNetwork)

\* The fields of a scan row that are found from the "Mbit/s" token onwards,
\* as the row holds them.
AnchoredFields(row) ==
    [channel |-> row.channel, rate |-> row.rate \o <<" ", "M", "b", "i", "t", "/", "s">>, signal |-> row.signal,
     bars |-> row.bars, security |-> Join(<<" ">>, row.security)]

AnchoredOf(network) ==
    [channel |-> network.dict.channel, rate |-> network.dict.rate,
     signal |-> network.dict.signal, bars |-> network.dict.bars,
     security |-> network.dict.security]

\* C12: a Wi-Fi scan row that does not match the layout is skipped and is not
\* fatal: the returned list holds one network per well-formed row of the
\* output, in order, whether the row stands before or after a malformed one.
C12_MalformedWifiRowIsSkipped ==
    (fact.getter \in WifiGetters /\ fact.args.printed /\ WellFormed(fact.args.rows) # <<>>) =>
        /\ "returned" \in DOMAIN fact.out
        /\ "list" \in DOMAIN fact.out.returned
        /\ Len(fact.out.returned.list) = Len(WellFormed(fact.args.rows))
        /\ \A i \in 1..Len(fact.out.returned.list) :
              AnchoredOf(fact.out.returned.list[i]) = AnchoredFields(WellFormed(fact.args.rows)[i])

\* The same on outputs that hold well-formed rows only.
C12_WellFormedWifiRowsAreKept ==
    (fact.getter \in WifiGetters /\ fact.args.printed
       /\ WellFormed(fact.args.rows) = fact.args.rows /\ fact.args.rows # <<>>) =>
        /\ "returned" \in DOMAIN fact.out
        /\ "list" \in DOMAIN fact.out.returned
        /\ Len(fact.out.returned.list) = Len(fact.args.rows)
        /\ \A i \in 1..Len(fact.out.returned.list) :
              AnchoredOf(fact.out.returned.list[i]) = AnchoredFields(fact.args.rows[i])


\* ---- C13 ----
ListParsers == {"get_disks_info", "get_processes_info", "PiInfo.get_available_wifi_networks"}

IsRaw(row) == row.kind = "raw"
\* The rows of an output that do not have the fields of the layout.
Malformed(rows) == SelectSeq(rows, IsRaw)

WarningCount(entries) ==
    Cardinality({i \in 1..Len(entries) : entries[i].level = "WARNING"})

\* C13: in each list parser of PiInfo (disks, processes, Wi-Fi networks) every
\* row that does not match the expected fields is skipped with one
\* warning-level log entry: the call returns, and its log holds as many
\* warnings as the output has such rows.
C13_SkippedRowIsWarned ==
    (fact.getter \in ListParsers /\ fact.args.printed /\ fact.args.rows # <<>>) =>
        /\ "returned" \in DOMAIN fact.out
        /\ WarningCount(fact.out.logged) = Len(Malformed(fact.args.rows))

\* The same for the process parser alone.
C13_SkippedProcessRowIsWarned ==
    (fact.getter = "get_processes_info" /\ fact.args.printed /\ fact.args.rows # <<>>) =>
        /\ "returned" \in DOMAIN fact.out
        /\ WarningCount(fact.out.logged) = Len(Malformed(fact.args.rows))
        /\ ErrorCount(fact.out.logged) = 0

\* A disk row of too few fields is skipped without any log entry.
C13_SkippedDiskRowIsWarned ==
    (fact.getter = "get_disks_info" /\ fact.args.printed /\ fact.args.rows # <<>>) =>
        WarningCount(fact.out.logged) = Len(Malformed(fact.args.rows))


\* ---- C14 ----
DiskGetters == {"get_disks_info", "get_disk_usage_info"}

\* The number of whitespace-separated fields of a row as printed.
FieldCount(row) ==
    IF row.kind = "disk" THEN 5 + Len(row.mounted_on) ELSE Len(Split(row.text))

HasSixFields(row) == FieldCount(row) >= 6

\* What a df row is to be reported as.
ExpectedDisk(row) ==
    Dict([filesystem |-> row.filesystem, size |-> row.size, used |-> row.used,
          available |-> row.available, use_percent |-> row.use,
          mounted_on |-> Join(<<" ">>, row.mounted_on)])

ExpectedDisks(rows) ==
    [i \in 1..Len(SelectSeq(rows, HasSixFields)) |->
        ExpectedDisk(SelectSeq(rows, HasSixFields)[i])]

\* C14: given a header line followed by rows, the disk parsers of both classes
\* return exactly the rows of at least 6 whitespace-separated fields, in input
\* order, each as filesystem, size, used, available, use_percent without its
\* '%' and mounted_on; rows of fewer fields are left out.
C14_DiskRowsOfSixFieldsAreReturned ==
    (fact.getter \in DiskGetters /\ fact.args.printed /\ fact.args.rows # <<>>) =>
        /\ "returned" \in DOMAIN fact.out
        /\ fact.out.returned = List(ExpectedDisks(fact.args.rows))

\* A row of five fields stood between two rows that were kept, one of them
\* mounted on a path of two words.
C14_Witness ==
    /\ fact.getter \in DiskGetters
    /\ fact.args.printed
    /\ Len(fact.args.rows) = 3
    /\ FieldCount(fact.args.rows[1]) = 7
    /\ FieldCount(fact.args.rows[2]) = 5
    /\ FieldCount(fact.args.rows[3]) = 6
    /\ "returned" \in DOMAIN fact.out
    /\ Len(fact.out.returned.list) = 2
    /\ fact.out.returned.list[1].dict.use_percent = <<"5", "0">>


\* ---- C15 ----
ProcessGetters == {"get_processes_info", "get_running_process_info"}

IsProcess(row) == row.kind = "process"

\* What a ps row is to be reported as.
ExpectedProcess(row) ==
    Dict([user |-> row.user, pid |-> row.pid, cpu_percent |-> row.cpu.value,
          mem_percent |-> row.mem.value, command |-> Join(<<" ">>, row.command),
          started_on |-> row.started.value])

ExpectedProcesses(rows) ==
    [i \in 1..Len(SelectSeq(rows, IsProcess)) |-> ExpectedProcess(SelectSeq(rows, IsProcess)[i])]

\* C15: a call of the process getter returns the well-formed rows of its own
\* command output in the order of the output, malformed rows left out and the
\* rows after them kept, whatever an earlier call on the instance returned;
\* a PiInfo call whose command printed nothing returns an empty list, again
\* whatever was returned before.
C15_ProcessesOfCurrentOutputOnly ==
    /\ (fact.getter \in ProcessGetters /\ fact.args.printed /\ fact.args.rows # <<>>) =>
          /\ "returned" \in DOMAIN fact.out
          /\ fact.out.returned = List(ExpectedProcesses(fact.args.rows))
    /\ (fact.getter = "get_processes_info" /\ "returned" \in DOMAIN fact.out
          /\ (~fact.args.printed \/ fact.args.rows = <<>>)) =>
          fact.out.returned = List(<<>>)

\* A second call, made after a call that returned processes, on an output
\* that has a malformed row before a well-formed one and differs from the
\* earlier output.
C15_Witness ==
    /\ fact.getter \in ProcessGetters
    /\ Len(snapshot) = 2
    /\ "returned" \in DOMAIN snapshot[1]
    /\ "list" \in DOMAIN snapshot[1].returned
    /\ snapshot[1].returned.list # <<>>
    /\ fact.args.printed
    /\ Len(fact.args.rows) = 3
    /\ IsRaw(fact.args.rows[1])
    /\ IsProcess(fact.args.rows[2])
    /\ IsRaw(fact.args.rows[3])
    /\ "returned" \in DOMAIN fact.out
    /\ Len(fact.out.returned.list) = 1
    /\ fact.out.returned.list # snapshot[1].returned.list


\* ---- C16 ----
\* What a scan row is to be reported as.
ExpectedNetwork(row) ==
    Dict([ssid |-> Join(<<" ">>, row.ssid), bssid |-> row.bssid, mode |-> row.mode,
          channel |-> row.channel, rate |-> row.rate \o <<" ", "M", "b", "i", "t", "/", "s">>, signal |-> row.signal,
          bars |-> row.bars, security |-> Join(<<" ">>, row.security)])

ExpectedNetworks(rows) == [i \in 1..Len(rows) |-> ExpectedNetwork(rows[i])]

\* C16: for scan rows made of an optional in-use marker '*', a BSSID, an SSID
\* of one or more words, mode, channel, rate and "Mbit/s", signal, bars and
\* security words, the Wi-Fi parsers of both classes return the SSID as its
\* words joined by single spaces and the other seven fields as the row holds
\* them.
C16_WifiRowFieldsAreExtracted ==
    (fact.getter \in WifiGetters /\ fact.args.printed /\ fact.args.rows # <<>>
       /\ WellFormed(fact.args.rows) = fact.args.rows) =>
        /\ "returned" \in DOMAIN fact.out
        /\ fact.out.returned = List(ExpectedNetworks(fact.args.rows))

\* The same for the parser of PiInfo alone, which takes the marker out.
C16_PiInfoWifiRowFieldsAreExtracted ==
    (fact.getter = "PiInfo.get_available_wifi_networks" /\ fact.args.printed
       /\ fact.args.rows # <<>> /\ WellFormed(fact.args.rows) = fact.args.rows) =>
        /\ "returned" \in DOMAIN fact.out
        /\ fact.out.returned = List(ExpectedNetworks(fact.args.rows))


\* ---- C17 ----
RamGetters == {"PiInfo.get_ram_info", "PiSystemInfo.get_ram_info"}
RamValues == {"total", "used", "free", "cache", "available"}

\* No one of the five values is reported: the result is None, or a dict in
\* which each of them is empty.
NoRamValueReported(value) ==
    \/ IsNone(value)
    \/ "dict" \in DOMAIN value /\ \A k \in RamValues : value.dict[k] = <<>>

\* C17: get_ram_info, asked in a unit of free, returns columns 1, 2, 3, 5 and
\* 6 of the second line as total, used, free, cache and available when that
\* line has all seven columns; on a block without a second line, or whose
\* second line has fewer than seven columns, it returns without raising, logs
\* an error and reports none of the five values.
C17_RamColumnsOrUnavailable ==
    (fact.getter \in RamGetters /\ fact.args.printed /\ fact.args.unit \in RamUnits) =>
        /\ "returned" \in DOMAIN fact.out
        /\ Len(fact.args.columns) >= 7 =>
              /\ "dict" \in DOMAIN fact.out.returned
              /\ fact.out.returned.dict.total = fact.args.columns[2]
              /\ fact.out.returned.dict.used = fact.args.columns[3]
              /\ fact.out.returned.dict.free = fact.args.columns[4]
              /\ fact.out.returned.dict.cache = fact.args.columns[6]
              /\ fact.out.returned.dict.available = fact.args.columns[7]
              /\ fact.out.logged = <<>>
        /\ Len(fact.args.columns) < 7 =>
              /\ NoRamValueReported(fact.out.returned)
              /\ ErrorCount(fact.out.logged) = 1

\* The same for PiSystemInfo alone, which builds its dict in one expression.
C17_PiSystemInfoRamColumnsOrUnavailable ==
    (fact.getter = "PiSystemInfo.get_ram_info" /\ fact.args.printed
       /\ fact.args.unit \in RamUnits) =>
        /\ "returned" \in DOMAIN fact.out
        /\ Len(fact.args.columns) >= 7 =>
              /\ "dict" \in DOMAIN fact.out.returned
              /\ fact.out.returned.dict.total = fact.args.columns[2]
              /\ fact.out.returned.dict.available = fact.args.columns[7]
        /\ Len(fact.args.columns) < 7 =>
              /\ IsNone(fact.out.returned)
              /\ ErrorCount(fact.out.logged) = 1

\* The same for PiInfo on the blocks that are whole or have no second line.
C17_PiInfoRamWholeOrHeaderOnly ==
    (fact.getter = "PiInfo.get_ram_info" /\ fact.args.printed /\ fact.args.unit \in RamUnits
       /\ Len(fact.args.columns) \in {0, 7}) =>
        /\ "returned" \in DOMAIN fact.out
        /\ Len(fact.args.columns) = 7 =>
              /\ fact.out.returned.dict.total = fact.args.columns[2]
              /\ fact.out.returned.dict.cache = fact.args.columns[6]
              /\ fact.out.returned.dict.available = fact.args.columns[7]
        /\ Len(fact.args.columns) = 0 =>
              /\ NoRamValueReported(fact.out.returned)
              /\ ErrorCount(fact.out.logged) = 1


\* ---- C18 ----
Divisor(unit) ==
    CASE unit = "Hz" -> 1
      [] unit = "KHz" -> 1000
      [] unit = "MHz" -> 1000000
      [] unit = "GHz" -> 1000000000

\* frequency / divisor as a number: an int when the quotient has no
\* fractional part, a float otherwise.
Quotient(frequency, divisor) ==
    LET q == IF IsInt(frequency) THEN Float(frequency.int, divisor)
             ELSE Float(frequency.float[1], frequency.float[2] * divisor)
    IN  IF q.float[2] = 1 THEN IntVal(q.float[1]) ELSE q

\* C18: for a frequency in Hz, given as an int or as a float, and a unit among
\* Hz, KHz, MHz and GHz, convert_frequency returns the frequency divided by 1,
\* 10^3, 10^6 or 10^9, as an int when the quotient has no fractional part; any
\* other unit raises IncorrectFrequencyUnitError.
C18_ConvertFrequencyScales ==
    fact.getter = "convert_frequency" =>
        IF fact.args.unit \in FrequencyUnits
        THEN /\ "returned" \in DOMAIN fact.out
             /\ fact.out.returned = Quotient(fact.args.frequency, Divisor(fact.args.unit))
        ELSE /\ "raised" \in DOMAIN fact.out
             /\ fact.out.raised = IncorrectFrequencyUnitError

\* The same without the calls that pass an int to be reported in Hz.
C18_ConvertFrequencyScalesFloatsAndQuotients ==
    (fact.getter = "convert_frequency"
       /\ ~(IsInt(fact.args.frequency) /\ fact.args.unit = "Hz")) =>
        IF fact.args.unit \in FrequencyUnits
        THEN /\ "returned" \in DOMAIN fact.out
             /\ fact.out.returned = Quotient(fact.args.frequency, Divisor(fact.args.unit))
        ELSE /\ "raised" \in DOMAIN fact.out
             /\ fact.out.raised = IncorrectFrequencyUnitError


\* ---- C19 ----
\* The command printed a number.
PrintedNumber(run) == run.kind = "completed" /\ ~Raised(FloatOf(run.stdout))

\* C19: a frequency query in a unit outside Hz, KHz, MHz and GHz, made when
\* the frequency can be read, raises IncorrectFrequencyUnitError to the caller
\* of get_cpu_core_frequencies (PiInfo) and of get_cpu_core_frequency
\* (PiSystemInfo); it does not log the error and return a defaulted value.
C19_UnknownUnitRaises ==
    /\ (fact.getter = "get_cpu_core_frequencies" /\ fact.args.unit \notin FrequencyUnits
          /\ \A ft \in {"min", "max", "cur"} : PrintedNumber(fact.inputs[ft])) =>
          /\ "raised" \in DOMAIN fact.out
          /\ fact.out.raised = IncorrectFrequencyUnitError
    /\ (fact.getter = "get_cpu_core_frequency" /\ fact.args.unit \notin FrequencyUnits
          /\ PrintedNumber(fact.inputs) /\ ~Raised(IntOf(fact.inputs.stdout))) =>
          /\ "raised" \in DOMAIN fact.out
          /\ fact.out.raised = IncorrectFrequencyUnitError


\* ---- C20 ----
\* The getters of PiInfo that run one command.
OneCommandGetters ==
    {"cpu_cores_count", "get_cpu_temperature", "get_cpu_core_voltage", "get_throttled_state",
     "boot_time", "get_bluetooth_mac_address", "PiInfo.get_available_wifi_networks",
     "get_disks_info", "get_processes_info", "PiInfo.get_ram_info"}

\* Every command the request ran was executed successfully.
AllCompleted ==
    CASE fact.getter \in OneCommandGetters -> fact.inputs.kind = "completed"
      [] fact.getter = "get_cpu_core_frequencies" ->
            /\ fact.args.unit \in FrequencyUnits
            /\ \A ft \in {"min", "max", "cur"} : fact.inputs[ft].kind = "completed"
      [] fact.getter = "get_network_interface_info" ->
            /\ fact.inputs.listing.kind = "listed"
            /\ \A c \in {"mac", "link", "addr", "route"} :
                  fact.inputs.runs[c].kind = "completed"
      [] OTHER -> FALSE

\* C20: whatever text the successfully executed commands return, a PiInfo
\* fact getter or cached property does not raise: it returns.
C20_NoRaiseOnAnyText == AllCompleted => "returned" \in DOMAIN fact.out

\* The same for every getter but boot_time.
C20_NoRaiseOnAnyTextButBootTime ==
    (AllCompleted /\ fact.getter # "boot_time") => "returned" \in DOMAIN fact.out

\* boot_time on text that is no date.
C20_BootTimeReturns ==
    (fact.getter = "boot_time" /\ fact.inputs.kind = "completed") =>
        "returned" \in DOMAIN fact.out


\* ---- C21 ----
\* The getters of PiSystemInfo that run one command and take its result as text.
PiSystemInfoScalarGetters ==
    {"PiSystemInfo.os_name", "PiSystemInfo.get_bluetooth_mac_address",
     "PiSystemInfo.get_uptime_since", "PiSystemInfo.get_cpu_core_voltage"}

\* The values a getter documents for a fact that is not available.
UnavailableValues == { Str(<<>>), None, List(<<>>) }

\* C21: when its command failed (non-zero exit status or tool absent), a fact
\* getter of PiInfo or PiSystemInfo does not raise; a scalar getter of
\* PiSystemInfo returns its unavailable value.
C21_FailedCommandRecovers ==
    /\ (fact.getter \in OneCommandGetters \cup PiSystemInfoScalarGetters
          /\ Failed(fact.inputs)) => "returned" \in DOMAIN fact.out
    /\ (fact.getter \in PiSystemInfoScalarGetters /\ Failed(fact.inputs)) =>
          /\ "returned" \in DOMAIN fact.out
          /\ fact.out.returned \in UnavailableValues

\* The same for the getters of PiInfo alone: none raises on a failed command.
C21_PiInfoFailedCommandRecovers ==
    (fact.getter \in OneCommandGetters /\ Failed(fact.inputs)) => "returned" \in DOMAIN fact.out

\* PiSystemInfo.get_cpu_core_voltage returns None on a failed command.
C21_PiSystemInfoVoltageRecovers ==
    (fact.getter = "PiSystemInfo.get_cpu_core_voltage" /\ Failed(fact.inputs)) =>
        /\ "returned" \in DOMAIN fact.out
        /\ fact.out.returned = None


\* ---- C22 ----
\* The reader calls made while the request was served.
Invocations == Len(fact.out.reads)

\* C22: a fact request issues exactly one external-process invocation
\* (get_cpu_core_frequencies, get_network_interface_info on a listed
\* interface, PiSystemInfo.cpu_model_name).
C22_OneInvocationPerRequest ==
    /\ fact.getter \in {"get_cpu_core_frequencies", "PiSystemInfo.cpu_model_name"} =>
          Invocations = 1
    /\ (fact.getter = "get_network_interface_info" /\ fact.inputs.listing.kind = "listed"
          /\ fact.args.interface \in fact.inputs.listing.names) => Invocations = 1

\* What the code does: three invocations for the three frequencies, the first
\* of which may raise; two to four for a listed interface unless one raises;
\* a second one for the model name when /proc/cpuinfo gave nothing.
C22_InvocationsPerRequest ==
    /\ fact.getter = "get_cpu_core_frequencies" =>
          Invocations = (IF "raised" \in DOMAIN fact.out THEN Invocations ELSE 3)
    /\ (fact.getter = "get_cpu_core_frequencies" /\ "raised" \in DOMAIN fact.out) =>
          Invocations \in 1..3
    /\ (fact.getter = "PiSystemInfo.cpu_model_name"
          /\ fact.inputs.cpuinfo.kind = "completed" /\ fact.inputs.cpuinfo.stdout # <<>>) =>
          Invocations = 1
    /\ (fact.getter = "PiSystemInfo.cpu_model_name" /\ Failed(fact.inputs.cpuinfo)) =>
          Invocations = 2
    /\ (fact.getter = "get_network_interface_info"
          /\ fact.inputs.listing.kind = "listed"
          /\ fact.args.interface \in fact.inputs.listing.names
          /\ \A c \in {"mac", "link"} : fact.inputs.runs[c].kind \notin UncaughtKinds) =>
          Invocations \in 2..4

\* The getters that run one command issue exactly one invocation.
C22_OneCommandGettersInvokeOnce ==
    (fact.getter \in (OneCommandGetters \ {"PiInfo.get_ram_info"}) \cup PiSystemInfoScalarGetters)
        => Invocations = 1


\* ---- C23 ----
\* C23: get_ram_info asked in a unit outside b, k, m and g runs no shell
\* command, logs one error and reports no RAM value: the five values are empty
\* in PiInfo's dict, and PiSystemInfo returns None.
C23_UnknownRamUnitRunsNothing ==
    (fact.getter \in RamGetters /\ fact.args.unit \notin {"b", "k", "m", "g"}) =>
        /\ "returned" \in DOMAIN fact.out
        /\ fact.out.reads = <<>>
        /\ Len(fact.out.logged) = 1
        /\ fact.out.logged[1].level = "ERROR"
        /\ fact.out.logged[1].arg = [unit |-> fact.args.unit]
        /\ fact.getter = "PiInfo.get_ram_info" =>
              /\ "dict" \in DOMAIN fact.out.returned
              /\ \A k \in RamValues : fact.out.returned.dict[k] = <<>>
        /\ fact.getter = "PiSystemInfo.get_ram_info" => fact.out.returned = None

\* PiInfo was asked for RAM in 'M' while free would have printed a whole block,
\* and ran nothing.
C23_Witness ==
    /\ fact.getter = "PiInfo.get_ram_info"
    /\ fact.args.unit = "M"
    /\ fact.args.printed /\ Len(fact.args.columns) = 7
    /\ "returned" \in DOMAIN fact.out
    /\ fact.out.reads = <<>>
    /\ ErrorCount(fact.out.logged) = 1


\* ---- C24 ----
\* The value the claim gives one key: the printed KHz number times 1000 in the
\* requested unit, or 0 when the command failed or printed no number.
ExpectedFrequency(run, unit) ==
    IF PrintedNumber(run) THEN Quotient(Times(FloatOf(run.stdout), 1000), Divisor(unit))
    ELSE Float(0, 1)

\* C24: get_cpu_core_frequencies, asked in one of its units, always returns a
\* record of exactly the keys min, max and cur; each key is 0 when its command
\* failed or printed no number and otherwise the printed KHz value times 1000
\* in the requested unit, whatever became of the other two.
C24_FrequenciesKeyByKey ==
    (fact.getter = "get_cpu_core_frequencies" /\ fact.args.unit \in FrequencyUnits) =>
        /\ "returned" \in DOMAIN fact.out
        /\ DOMAIN fact.out.returned.dict = {"min", "max", "cur"}
        /\ \A ft \in {"min", "max", "cur"} :
              fact.out.returned.dict[ft] = ExpectedFrequency(fact.inputs[ft], fact.args.unit)

\* The same when every command either completed or failed in a way the reader
\* catches.
C24_FrequenciesKeyByKeyOnCaughtFailures ==
    (fact.getter = "get_cpu_core_frequencies" /\ fact.args.unit \in FrequencyUnits
       /\ \A ft \in {"min", "max", "cur"} : fact.inputs[ft].kind \notin UncaughtKinds) =>
        /\ "returned" \in DOMAIN fact.out
        /\ DOMAIN fact.out.returned.dict = {"min", "max", "cur"}
        /\ \A ft \in {"min", "max", "cur"} :
              fact.out.returned.dict[ft] = ExpectedFrequency(fact.inputs[ft], fact.args.unit)

\* A request whose max command failed and whose cur printed no number, with
\* min reported.
C24_PartialFailure ==
    /\ fact.getter = "get_cpu_core_frequencies" /\ fact.args.unit = "MHz"
    /\ Failed(fact.inputs.max) /\ fact.inputs.cur = Completed(<<"n", "/", "a">>)
    /\ "returned" \in DOMAIN fact.out
    /\ fact.out.returned.dict.min = IntVal(600)


\* ---- C25 ----
\* The call was made on a class that had its instance.
LaterCall ==
    /\ fact.getter = "Singleton.__call__"
    /\ snapshot[1].instances[fact.args.cls] # 0

\* C25: a call of PiInfo, PiSystemInfo or LoggerSingleton made after the
\* class has its instance returns that instance whatever the arguments are
\* and does not run the initializer: no object changes, so PiInfo keeps the
\* logger it was built with and the logger keeps its handlers.
C25_LaterCallReturnsFirstInstance ==
    LaterCall =>
        /\ "returned" \in DOMAIN fact.out
        /\ fact.out.returned = snapshot[1].instances[fact.args.cls]
        /\ ~fact.out.initialized
        /\ instances = snapshot[1].instances
        /\ heap = snapshot[1].heap

\* PiInfo, built with one logger, was called with the other.
C25_Witness ==
    /\ LaterCall
    /\ fact.args.cls = "PiInfo"
    /\ heap[instances["PiInfo"]].logger # fact.args.args.logger
    /\ fact.out.returned = instances["PiInfo"]

\* LoggerSingleton, set up with a log file at one level, was called with no
\* file and the other level.
C25_LoggerCalledAgain ==
    /\ LaterCall
    /\ fact.args.cls = "LoggerSingleton"
    /\ heap[SuperLoggerAt(heap)].level # fact.args.args.level
    /\ Len(heap[SuperLoggerAt(heap)].handlers) = 2
    /\ fact.args.args.log_file = ""


\* ---- C26 ----
\* The reads of a property that ran its command.
CommandReads(name) ==
    {i \in 1..Len(snapshot) : snapshot[i].name = name /\ snapshot[i].out.reads # <<>>}

\* The read at j returns what the earlier read at i returned, if that one returned.
SameAsEarlier(i, j) ==
    /\ "returned" \in DOMAIN snapshot[j].out
    /\ "returned" \in DOMAIN snapshot[i].out =>
          snapshot[j].out.returned = snapshot[i].out.returned

\* C26: a cached fact of PiInfo runs its command at most once in the life of
\* the instance, and every later read returns the value of the first read,
\* the unavailable default of a failed command included.
C26_CachedFactRunsOnce ==
    \A name \in CachedFacts :
        /\ Cardinality(CommandReads(name)) <= 1
        /\ \A i, j \in 1..Len(snapshot) :
              (i < j /\ snapshot[i].name = name /\ snapshot[j].name = name) =>
                  SameAsEarlier(i, j)

\* What holds: once a read has returned, no later read of that property runs
\* a command or logs, and each returns that value.
C26_ReturnedFactIsCached ==
    \A i, j \in 1..Len(snapshot) :
        (i < j /\ snapshot[i].name = snapshot[j].name /\ "returned" \in DOMAIN snapshot[i].out) =>
            /\ snapshot[j].out.reads = <<>>
            /\ snapshot[j].out.logged = <<>>
            /\ SameAsEarlier(i, j)

\* A property whose first command failed in a way the reader catches was read
\* again while the command would have worked: the default of the first read
\* is returned.
C26_DefaultIsCached ==
    /\ Len(snapshot) >= 2
    /\ snapshot[1].name = "cpu_cores_count" /\ snapshot[2].name = "cpu_cores_count"
    /\ Failed(snapshot[1].out.reads[1].run)
    /\ fact.args.n = 2 /\ fact.inputs.kind = "completed" /\ fact.inputs.stdout # <<"f", "o", "u", "r">>
    /\ fact.out.returned = IntVal(0)
    /\ fact.out.reads = <<>>

\* boot_time was read twice and ran its command twice.
C26_BootTimeRunsTwice ==
    /\ Cardinality(CommandReads("boot_time")) = 2
    /\ "raised" \in DOMAIN snapshot[1].out
    /\ snapshot[1].out.reads[1].run.kind = "completed"


\* ---- C27 ----
\* The getter returned a record for a listed interface after its link command.
LinkQueried ==
    /\ fact.getter = "get_network_interface_info"
    /\ "returned" \in DOMAIN fact.out
    /\ Len(fact.out.reads) >= 2

\* `ip -o link show` printed neither "state UP" nor "LOWER_UP".
PrintedDown(run) ==
    /\ run.kind = "completed"
    /\ ~Contains(run.stdout, <<"s", "t", "a", "t", "e", " ", "U", "P">>)
    /\ ~Contains(run.stdout, <<"L", "O", "W", "E", "R", "_", "U", "P">>)

\* C27: get_network_interface_info reports the state DOWN only when `ip -o
\* link show` succeeded and printed neither "state UP" nor "LOWER_UP"; when
\* that command failed, no state is derived from its empty result.
C27_DownOnlyFromLinkOutput ==
    LinkQueried =>
        /\ fact.out.returned.dict.state = <<"D", "O", "W", "N">> =>
              fact.inputs.runs.link.kind = "completed" /\ PrintedDown(fact.inputs.runs.link)
        /\ Failed(fact.inputs.runs.link) => fact.out.returned.dict.state = <<>>

\* The same for a link command that was executed successfully: DOWN exactly
\* when it printed neither text.
C27_DownFromCompletedLinkOutput ==
    (LinkQueried /\ fact.inputs.runs.link.kind = "completed") =>
        (fact.out.returned.dict.state = <<"D", "O", "W", "N">> <=> PrintedDown(fact.inputs.runs.link))

\* What the code does with a failed link command: DOWN and a warning.
C27_FailedLinkIsDown ==
    (LinkQueried /\ Failed(fact.inputs.runs.link)) =>
        /\ fact.out.returned.dict.state = <<"D", "O", "W", "N">>
        /\ WarningCount(fact.out.logged) = 1
        /\ Len(fact.out.reads) = 2


\* ---- C28 ----
\* The octet k (0 the highest) of the 32-bit value whose p highest bits are
\* one: its own highest bits are one, as many as p reaches into it.
MaskOctet(p, k) ==
    LET ones == IF p - 8 * k >= 8 THEN 8 ELSE IF p - 8 * k <= 0 THEN 0 ELSE p - 8 * k
    IN  256 - 2 ^ (8 - ones)

ExpectedMask(p) ==
    DecChars(MaskOctet(p, 0)) \o <<".">> \o DecChars(MaskOctet(p, 1)) \o <<".">>
        \o DecChars(MaskOctet(p, 2)) \o <<".">> \o DecChars(MaskOctet(p, 3))

\* get_network_interface_info returned a record made from `inet a.b.c.d/p`
\* with p in 0..32.
PrefixParsed ==
    /\ fact.getter = "get_network_interface_info"
    /\ "prefix_len" \in DOMAIN fact.args
    /\ fact.args.prefix_len \in 0..32
    /\ "returned" \in DOMAIN fact.out

\* C28: for every prefix length p in 0..32 parsed from `inet a.b.c.d/p`, the
\* mask reported is the dotted form of the 32-bit value whose p highest bits
\* are one: 0.0.0.0 for 0, 255.255.255.0 for 24, 255.255.255.255 for 32.
C28_MaskOfPrefixLength ==
    PrefixParsed =>
        /\ fact.out.returned.dict.ip = <<"1", "0", ".", "0", ".", "0", ".", "7">>
        /\ fact.out.returned.dict.mask = ExpectedMask(fact.args.prefix_len)
        /\ fact.args.prefix_len = 0 => fact.out.returned.dict.mask = <<"0", ".", "0", ".", "0", ".", "0">>
        /\ fact.args.prefix_len = 24 => fact.out.returned.dict.mask = <<"2", "5", "5", ".", "2", "5", "5", ".", "2", "5", "5", ".", "0">>
        /\ fact.args.prefix_len = 32 => fact.out.returned.dict.mask = <<"2", "5", "5", ".", "2", "5", "5", ".", "2", "5", "5", ".", "2", "5", "5">>

\* The mask of a prefix length that ends inside an octet.
C28_Witness ==
    /\ PrefixParsed
    /\ fact.args.prefix_len = 20
    /\ fact.out.returned.dict.mask = <<"2", "5", "5", ".", "2", "5", "5", ".", "2", "4", "0", ".", "0">>


\* ---- C29 ----
\* The commands the request issued.
CommandsIssued == [i \in 1..Len(fact.out.reads) |-> fact.out.reads[i].command]

\* C29: for an interface that is not listed under /sys/class/net,
\* get_network_interface_info returns the record of six empty fields, logs
\* one error and runs no shell command; for an interface found DOWN it returns
\* a record in which only mac and state are set, and runs the address and the
\* link command only.
C29_UnlistedOrDownStopsEarly ==
    /\ (fact.getter = "get_network_interface_info" /\ fact.inputs.listing.kind = "listed"
          /\ fact.args.interface \notin fact.inputs.listing.names) =>
          /\ "returned" \in DOMAIN fact.out
          /\ fact.out.returned = Dict(EmptyNicInfo)
          /\ Len(fact.out.logged) = 1 /\ fact.out.logged[1].level = "ERROR"
          /\ fact.out.reads = <<>>
    /\ (LinkQueried /\ fact.out.returned.dict.state = <<"D", "O", "W", "N">>) =>
          /\ \A k \in {"ip", "mask", "broadcast", "gateway"} : fact.out.returned.dict[k] = <<>>
          /\ fact.out.returned.dict.mac = Upper(fact.out.reads[1].out.returned.str)
          /\ CommandsIssued =
                <<"cat /sys/class/net/" \o fact.args.interface \o "/address",
                  "ip -o link show " \o fact.args.interface>>

\* wlan0 was asked for and is not in the directory, while every command would
\* have printed.
C29_Witness ==
    /\ fact.getter = "get_network_interface_info"
    /\ fact.args.interface = "wlan0"
    /\ fact.inputs.listing.kind = "listed"
    /\ \A c \in {"mac", "link", "addr", "route"} : fact.inputs.runs[c].kind = "completed"
    /\ fact.out.returned = Dict(EmptyNicInfo)
    /\ fact.out.reads = <<>>

\* eth0 was found DOWN with its MAC address read.
C29_DownInterface ==
    /\ LinkQueried
    /\ PrintedDown(fact.inputs.runs.link)
    /\ fact.out.returned.dict.state = <<"D", "O", "W", "N">>
    /\ fact.out.returned.dict.mac = <<"B", "8", ":", "2", "7", ":", "E", "B", ":", "A", "A", ":", "B", "B", ":", "C", "C">>
    /\ fact.inputs.runs.addr.kind = "completed" /\ fact.inputs.runs.addr.stdout # <<>>


\* ---- C30 ----
\* A new-style code of at most 32 bits whose model type is listed was decoded.
ListedNewStyleDecoded ==
    /\ decoded # NoResult
    /\ IsPlainHex(revision_code) /\ Len(revision_code) <= 8
    /\ TextBit23(revision_code)
    /\ TextModelType(revision_code) \in ListedModelTypes

\* The three indices of the code are within their lists.
IndicesInRange(text) ==
    /\ TextDigit(text, 5) - 8 <= 6
    /\ TextDigit(text, 3) <= 4
    /\ TextDigit(text, 4) <= 5

\* C30: a new-style code of 32 bits whose model type is listed decodes to a
\* complete record exactly when its memory index is at most 6, its processor
\* index at most 4 and its manufacturer index at most 5; any other such code
\* raises IndexError and no partial record is returned.
C30_CompleteRecordIffIndicesInRange ==
    ListedNewStyleDecoded =>
        /\ IndicesInRange(revision_code) <=> ~Raised(decoded)
        /\ ~Raised(decoded) =>
              /\ DOMAIN decoded = {"model_type", "revision", "memory_size", "cpu_model",
                                   "manufacturer", "overvoltage_allowed",
                                   "otp_programming_allowed", "otp_reading_allowed"}
              /\ decoded.memory_size = memory_sizes[TextDigit(revision_code, 5) - 7]
              /\ decoded.cpu_model = cpu_models[TextDigit(revision_code, 3) + 1]
              /\ decoded.manufacturer = manufacturers[TextDigit(revision_code, 4) + 1]
        /\ Raised(decoded) =>
              /\ decoded.raised = "IndexError"
              /\ DOMAIN decoded = {"raised", "at"}

\* A Pi 4B code with memory index 7 was decoded and raised.
C30_Witness ==
    /\ revision_code = <<"f", "0", "3", "1", "1", "2">>
    /\ decoded # NoResult
    /\ Raised(decoded)
    /\ decoded = IndexError("memory_sizes")

\* A code whose three indices are the last of their lists was decoded.
C30_LastIndices ==
    /\ revision_code = <<"e", "5", "4", "1", "1", "2">>
    /\ decoded # NoResult /\ ~Raised(decoded)
    /\ decoded.memory_size = 16384 /\ decoded.cpu_model = "BCM2712"
    /\ decoded.manufacturer = "Stadium"

====
